---- MODULE Spec2Model ----
(***************************************************************************)
(* Position ledger, position monitor, signal scans and persistence of the  *)
(* Borsihai swing-trading bot.                                             *)
(*                                                                         *)
(* The persisted portfolio state (state.json), the trade log               *)
(* (trade_log.json), the button handler and the /scan command of           *)
(* telegram_handlers.py with /afk and /ready, the position monitor of      *)
(* position_manager.py and                                                 *)
(* the hourly scan job of bot.py are modelled as one state machine.        *)
(* Handlers and jobs are coroutines on one event loop: a step of the model *)
(* is the code between two awaits.  In these steps save_state is one       *)
(* assignment of the variable state; load_state and save_state themselves  *)
(* are modelled on the files, step by step, by the variables files and     *)
(* proc.  scan_market and compute_signal_score of scanner.py are modelled  *)
(* on the variable scanner: a market scan from its pairs file through its  *)
(* awaits to the result it returns, the fetched candle series being held   *)
(* as the values the code reads from them, or row by row where the rows    *)
(* that are read matter.                                                   *)
(*                                                                         *)
(* Prices and money are Python floats in the source; here they are exact   *)
(* rationals <<numerator, denominator>> in lowest terms, so the model      *)
(* states the arithmetic of the code without IEEE rounding.  The floats    *)
(* of the scorer may also be NaN.                                          *)
(***************************************************************************)
EXTENDS Integers, Sequences, FiniteSets, TLC

VARIABLES state, trade_log, handler, reply, monitor,
          scanner, alerts, files, proc

\* The variables of the signal scans (the hourly job and the signal alerts
\* waiting for an answer) and of the file-level view of state_manager.
scanvars == <<scanner, alerts>>
filevars == <<files, proc>>

vars == <<state, trade_log, handler, reply, monitor, scanner, alerts, files, proc>>

-----------------------------------------------------------------------------
(* Exact arithmetic standing for the float operators of the source.        *)

Abs(x) == IF x < 0 THEN -x ELSE x

RECURSIVE GCD(_, _)
GCD(a, b) == IF b = 0 THEN a ELSE GCD(b, a % b)

LCM(a, b) == (a \div GCD(a, b)) * b

Norm(n, d) ==
    LET g == GCD(Abs(n), Abs(d))
        s == IF d < 0 THEN -1 ELSE 1
    IN  <<(s * n) \div g, (s * d) \div g>>

R(n) == <<n, 1>>

RAdd(a, b) ==
    LET l == LCM(a[2], b[2])
    IN  Norm(a[1] * (l \div a[2]) + b[1] * (l \div b[2]), l)

RNeg(a) == <<-a[1], a[2]>>

RSub(a, b) == RAdd(a, RNeg(b))

RMul(a, b) ==
    LET g1 == GCD(Abs(a[1]), b[2])
        g2 == GCD(Abs(b[1]), a[2])
    IN  Norm((a[1] \div g1) * (b[1] \div g2), (a[2] \div g2) * (b[2] \div g1))

RDiv(a, b) == RMul(a, Norm(b[2], b[1]))

RLt(a, b) ==
    LET l == LCM(a[2], b[2])
    IN  a[1] * (l \div a[2]) < b[1] * (l \div b[2])

RLe(a, b) == ~RLt(b, a)

RMax(a, b) == IF RLt(a, b) THEN b ELSE a

\* The integer nearest to a, a tie going to the even one: what round() and
\* the fixed-point formats of Python do with a float.
RoundHalfEven(a) ==
    LET q == a[1] \div a[2]
        rem == a[1] % a[2]
    IN  IF 2 * rem < a[2] THEN q
        ELSE IF 2 * rem > a[2] THEN q + 1
        ELSE IF q % 2 = 0 THEN q ELSE q + 1

-----------------------------------------------------------------------------
(* config.py                                                               *)

MAX_POSITIONS == 5
POSITION_SIZE_PCT == <<1, 5>>
ATR_MULTIPLIER == <<2, 1>>
TP1_RR_RATIO == <<3, 2>>
DEFAULT_PORTFOLIO_BALANCE == <<25000, 1>>

\* The literals of the handlers: the 0.2 % round-trip fee, the 4 % risk
\* fallback and the break-even factors 1.002 / 0.998.
FEE_PCT == <<1, 5>>
FALLBACK_RISK == <<1, 25>>
BE_LONG == <<501, 500>>
BE_SHORT == <<499, 500>>

-----------------------------------------------------------------------------
(* Bounds of the model.                                                    *)

\* Longest trade log explored (every capital transition appends a record),
\* one bound for each specification below.
MaxLog == 2
MaxLedgerLog == 4
MaxCapacityLog == 6
\* Longest trade log explored with the jobs beside the opens.
MaxSlotsLog == 9
MaxMonitorLog == 3
MaxSignalLog == 1
\* Most positions open where every open answers an alert.
MaxReopenPositions == 2
\* Largest pair universe whose fetches are explored with every outcome.
ExhaustivePairs == 2
\* Longest trade log explored with the stop and target levels.
MaxLevelLog == 1
MaxJournalLog == 1
\* Most entries of trade_log.json.
MaxLogFile == 2
\* Most positions open at a time where appends to the trade log can fail.
MaxJournalPositions == 2
\* Most alerts that wait for an answer.
MaxAlerts == 2
\* Largest denial counter explored.
MaxDenials == 2

Symbols == {"BTC/USDT", "ETH/USDT"}
\* <<side, symbol>> of the open tokens pressed.
OpenTokens == {<<"LONG", "BTC/USDT">>, <<"SHORT", "ETH/USDT">>}
SpecTokens == {<<"LONG", "BTC/USDT">>}
Paths == {"TA"}
\* <<symbol, side>> of the signals scan_market can detect: one signal for a
\* symbol at a time.
ScanSignals == {<<"BTC/USDT", "LONG">>, <<"ETH/USDT", "SHORT">>}
SignalSets ==
    {S \in SUBSET ScanSignals : \A a \in S, b \in S : a[1] = b[1] => a = b}
\* ATR values carried by open tokens, and prices the ticker reports when an
\* open is confirmed.
TokenAtrs == {R(9)}
OpenPrices == {R(1000)}

-----------------------------------------------------------------------------
(* State.                                                                  *)

\* state_manager.load_state: the default state written when state.json is
\* absent.  sent_signals is absent from the file then; the handlers read an
\* absent sent_signals as holding no key.
DefaultState ==
    [portfolio_balance |-> R(25000),
     available_cash    |-> R(25000),
     tied_capital      |-> R(0),
     bot_status        |-> "ready",
     active_positions  |-> <<>>,
     sent_signals      |-> {}]

IdleHandler == [pc |-> "idle"]
IdleMonitor == [pc |-> "idle"]
NoReply == [kind |-> "none", symbol |-> "none"]

\* The hourly scan job between two runs.
IdleScanner == [pc |-> "idle"]

\* The signal alerts in the chat that still carry their buttons, counted by
\* <<key, origin>>: the key is <<symbol, side>>, the origin is the scan
\* that sent the alert ("scanner" for the hourly job, "scan" for /scan).
\* pressed holds the alert whose Opened button is being handled.
AlertKinds == ScanSignals \X {"scanner", "scan"}
NoAlerts == [out |-> [a \in AlertKinds |-> 0], pressed |-> {}]

\* The Python value None.
PyNone == [t |-> "none"]

\* File names are lists of their parts: STATE_FILE + ".tmp" appends one.
STATE_FILE == <<"state.json">>

\* The name is left as it is.
SamePath(path) == path

\* tmp_file = STATE_FILE + ".tmp"
TmpName(path) == path \o <<".tmp">>

TRADE_LOG_FILE == <<"trade_log.json">>

FileNames == {STATE_FILE, TmpName(STATE_FILE), TRADE_LOG_FILE}

\* A file is absent or holds a text, a list of JSON tokens.  Before the
\* first load neither state.json nor its temporary file exists, and the
\* process holds no state.  saved is the value written by the last
\* save_state that returned (None before the first); created tells that
\* load_state is writing the default state.
Absent == [exists |-> FALSE, text |-> <<>>]
NoFiles == [f \in FileNames |-> Absent]
IdleProc == [pc |-> "idle", mem |-> PyNone, saved |-> PyNone, created |-> FALSE]

Init ==
    /\ state = DefaultState
    /\ trade_log = <<>>
    /\ handler = IdleHandler
    /\ reply = NoReply
    /\ monitor = IdleMonitor
    /\ scanner = IdleScanner
    /\ alerts = NoAlerts
    /\ files = NoFiles
    /\ proc = IdleProc

-----------------------------------------------------------------------------
(* telegram_handlers._handle_open                                          *)

InitialRisk(atr_val, price) ==
    IF RLt(R(0), atr_val) THEN RMul(ATR_MULTIPLIER, atr_val)
                          ELSE RMul(price, FALLBACK_RISK)

StopLoss(side, price, initial_risk) ==
    IF side = "LONG" THEN RSub(price, initial_risk)
                     ELSE RAdd(price, initial_risk)

\* A first target one risk away from the entry.
Tp1AtRisk(side, price, initial_risk) ==
    IF side = "LONG" THEN RAdd(price, initial_risk)
                     ELSE RSub(price, initial_risk)

Tp1Price(side, price, initial_risk) ==
    IF side = "LONG" THEN RAdd(price, RMul(initial_risk, TP1_RR_RATIO))
                     ELSE RSub(price, RMul(initial_risk, TP1_RR_RATIO))

\* An allocation of a tenth of the balance.
AllocatedTenth(balance) == RMul(balance, <<1, 10>>)

AllocatedCapital(balance) == RMul(balance, POSITION_SIZE_PCT)

NewPosition(side, symbol, path, price, allocated_capital, atr_val) ==
    LET initial_risk == InitialRisk(atr_val, price)
    IN  [symbol            |-> symbol,
         side              |-> side,
         path              |-> path,
         entry_price       |-> price,
         allocated_capital |-> allocated_capital,
         initial_risk      |-> initial_risk,
         current_sl        |-> StopLoss(side, price, initial_risk),
         tp1_price         |-> Tp1Price(side, price, initial_risk),
         tp1_hit           |-> FALSE,
         denial_count      |-> 0]

LogRecord(action, symbol, side, price, sl, pnl) ==
    [action |-> action, symbol |-> symbol, side |-> side,
     price |-> price, sl |-> sl, pnl |-> pnl]

\* The pnl of an OPEN record is None.
NoPnl == <<0, 0>>

\* The state _handle_open saves, from the state st the handler loaded.
OpenedState(st, side, symbol, atr_val, path, price) ==
    LET allocated_capital == AllocatedCapital(st.portfolio_balance)
    IN  [st EXCEPT
           !.available_cash   = RSub(st.available_cash, allocated_capital),
           !.tied_capital     = RAdd(st.tied_capital, allocated_capital),
           !.active_positions = Append(st.active_positions,
               NewPosition(side, symbol, path, price, allocated_capital, atr_val)),
           !.sent_signals     = st.sent_signals \ {<<symbol, side>>}]

\* More positions than MAX_POSITIONS.
PositionsOverfull(positions) == Len(positions) > MAX_POSITIONS

\* if len(positions) >= MAX_POSITIONS
PositionsFull(positions) == Len(positions) >= MAX_POSITIONS

\* button_handler loads the state and _handle_open runs up to its await of
\* fetch_ticker, or rejects at MAX_POSITIONS.
HandleOpenStart(side, symbol, atr_val, path) ==
    /\ handler.pc = "idle"
    /\ IF PositionsFull(state.active_positions)
       THEN /\ reply' = [kind |-> "max_positions", symbol |-> symbol]
            /\ UNCHANGED handler
       ELSE /\ handler' = [pc |-> "fetch", state |-> state, side |-> side,
                           symbol |-> symbol, atr_val |-> atr_val, path |-> path]
            /\ UNCHANGED reply
    /\ UNCHANGED <<state, trade_log, monitor>>

\* fetch_ticker returns price: the rest of _handle_open, on the state loaded
\* before the await.
HandleOpenFinish(price) ==
    /\ handler.pc = "fetch"
    /\ LET st == handler.state
           allocated_capital == AllocatedCapital(st.portfolio_balance)
       IN  IF RLt(st.available_cash, allocated_capital)
           THEN /\ reply' = [kind |-> "no_cash", symbol |-> handler.symbol]
                /\ UNCHANGED <<state, trade_log>>
           ELSE /\ state' = OpenedState(st, handler.side, handler.symbol,
                                        handler.atr_val, handler.path, price)
                /\ trade_log' = Append(trade_log,
                       LogRecord("OPEN", handler.symbol, handler.side, price,
                                 StopLoss(handler.side, price,
                                          InitialRisk(handler.atr_val, price)),
                                 NoPnl))
                /\ reply' = [kind |-> "opened", symbol |-> handler.symbol]
    /\ handler' = IdleHandler
    /\ UNCHANGED monitor

\* fetch_ticker raises: button_handler logs the error and returns.
HandleOpenFetchFails ==
    /\ handler.pc = "fetch"
    /\ handler' = IdleHandler
    /\ UNCHANGED <<state, trade_log, reply, monitor>>

-----------------------------------------------------------------------------
(* telegram_handlers._handle_sl_closed                                     *)

\* The net percentage of a LONG, whatever the side.
NetPctLong(side, entry, exit) ==
    RSub(RMul(RDiv(RSub(exit, entry), entry), R(100)), FEE_PCT)

\* net_pct = (exit - entry) / entry * 100 - 0.2, signed by the side.
NetPct(side, entry, exit) ==
    LET move == IF side = "LONG" THEN RSub(exit, entry) ELSE RSub(entry, exit)
    IN  RSub(RMul(RDiv(move, entry), R(100)), FEE_PCT)

\* pnl = alloc * (net_pct / 100)
Pnl(alloc, net_pct) == RMul(alloc, RDiv(net_pct, R(100)))

\* A release that leaves tied_capital as it was.
ReleaseTiedKept(tied_capital, alloc) == tied_capital

\* tied_capital = max(0.0, tied_capital - alloc)
ReleaseTied(tied_capital, alloc) == RMax(R(0), RSub(tied_capital, alloc))

\* One pass of the loop body over position p; acc carries the state being
\* mutated, the kept positions and the records logged so far.
ClosedStep(acc, p, symbol) ==
    IF p.symbol = symbol
    THEN LET pnl == Pnl(p.allocated_capital,
                        NetPct(p.side, p.entry_price, p.current_sl))
         IN  [acc EXCEPT
                !.st.portfolio_balance = RAdd(acc.st.portfolio_balance, pnl),
                !.st.available_cash =
                    RAdd(RAdd(acc.st.available_cash, p.allocated_capital), pnl),
                !.st.tied_capital =
                    ReleaseTied(acc.st.tied_capital, p.allocated_capital),
                !.log = Append(acc.log,
                    LogRecord("CLOSE", symbol, p.side, p.entry_price,
                              p.current_sl, pnl))]
    ELSE [acc EXCEPT !.kept = Append(acc.kept, p)]

RECURSIVE ClosedFold(_, _, _, _)
ClosedFold(acc, positions, symbol, i) ==
    IF i > Len(positions) THEN acc
    ELSE ClosedFold(ClosedStep(acc, positions[i], symbol), positions, symbol, i + 1)

\* The state _handle_sl_closed saves and the records it logs, from state st.
SlClosed(st, symbol) ==
    LET acc == ClosedFold([st |-> st, kept |-> <<>>, log |-> <<>>],
                          st.active_positions, symbol, 1)
    IN  [st  |-> [acc.st EXCEPT !.active_positions = acc.kept],
         log |-> acc.log]

HandleSlClosed(symbol) ==
    /\ handler.pc = "idle"
    /\ LET r == SlClosed(state, symbol)
       IN  /\ state' = r.st
           /\ trade_log' = trade_log \o r.log
    /\ reply' = [kind |-> "closed", symbol |-> symbol]
    /\ UNCHANGED <<handler, monitor>>

-----------------------------------------------------------------------------
(* telegram_handlers._handle_sl_open                                       *)

\* One denial more, whatever the symbol of the position.
DeniedAny(p, symbol) == [p EXCEPT !.denial_count = p.denial_count + 1]

\* if p['symbol'] == symbol: p['denial_count'] = p.get('denial_count', 0) + 1
DeniedPosition(p, symbol) ==
    IF p.symbol = symbol THEN [p EXCEPT !.denial_count = p.denial_count + 1]
                         ELSE p

SlOpen(st, symbol) ==
    [st EXCEPT !.active_positions =
        [i \in DOMAIN st.active_positions |->
            DeniedPosition(st.active_positions[i], symbol)]]

HandleSlOpen(symbol) ==
    /\ handler.pc = "idle"
    /\ state' = SlOpen(state, symbol)
    /\ reply' = [kind |-> "denied", symbol |-> symbol]
    /\ UNCHANGED <<trade_log, handler, monitor>>

-----------------------------------------------------------------------------
(* telegram_handlers._handle_half_close                                    *)

BreakEvenSl(side, entry) ==
    IF side = "LONG" THEN RMul(entry, BE_LONG) ELSE RMul(entry, BE_SHORT)

HalfAlloc(alloc) == RDiv(alloc, R(2))

\* if p['symbol'] == symbol and not p.get('tp1_hit', False)
Tp1Pending(p, symbol) == p.symbol = symbol /\ ~p.tp1_hit

HalfClosedStep(acc, i, symbol) ==
    LET p == acc.st.active_positions[i]
    IN  IF Tp1Pending(p, symbol)
        THEN LET half_alloc == HalfAlloc(p.allocated_capital)
                 pnl == Pnl(half_alloc,
                            NetPct(p.side, p.entry_price, p.tp1_price))
             IN  [acc EXCEPT
                    !.st.portfolio_balance = RAdd(acc.st.portfolio_balance, pnl),
                    !.st.available_cash =
                        RAdd(RAdd(acc.st.available_cash, half_alloc), pnl),
                    !.st.tied_capital =
                        ReleaseTied(acc.st.tied_capital, half_alloc),
                    !.st.active_positions[i] =
                        [p EXCEPT !.tp1_hit = TRUE,
                                  !.allocated_capital = half_alloc,
                                  !.current_sl = BreakEvenSl(p.side, p.entry_price)],
                    !.log = Append(acc.log,
                        LogRecord("PARTIAL_CLOSE", symbol, p.side, p.entry_price,
                                  p.tp1_price, pnl))]
        ELSE acc

RECURSIVE HalfClosedFold(_, _, _)
HalfClosedFold(acc, symbol, i) ==
    IF i > Len(acc.st.active_positions) THEN acc
    ELSE HalfClosedFold(HalfClosedStep(acc, i, symbol), symbol, i + 1)

\* The state _handle_half_close saves and the records it logs, from state st.
HalfClosed(st, symbol) == HalfClosedFold([st |-> st, log |-> <<>>], symbol, 1)

HandleHalfClose(symbol) ==
    /\ handler.pc = "idle"
    /\ LET r == HalfClosed(state, symbol)
       IN  /\ state' = r.st
           /\ trade_log' = trade_log \o r.log
    /\ reply' = [kind |-> "half_closed", symbol |-> symbol]
    /\ UNCHANGED <<handler, monitor>>

-----------------------------------------------------------------------------
(* state_manager.log_trade raises                                          *)

\* _handle_open: log_trade("OPEN", ...) raises after save_state(state).
\* The opened state is saved, nothing is logged, and button_handler logs the
\* error: the alert is not edited.
HandleOpenLogFails(price) ==
    /\ handler.pc = "fetch"
    /\ ~RLt(handler.state.available_cash, AllocatedCapital(handler.state.portfolio_balance))
    /\ state' = OpenedState(handler.state, handler.side, handler.symbol,
                            handler.atr_val, handler.path, price)
    /\ handler' = IdleHandler
    /\ UNCHANGED <<trade_log, reply, monitor>>

\* _handle_sl_closed: log_trade("CLOSE", ...) raises for the n-th position
\* of the symbol, inside the loop and before save_state(state).  The
\* records of the positions before it are logged, nothing is saved, and
\* button_handler logs the error.
HandleSlClosedLogFails(symbol, n) ==
    /\ handler.pc = "idle"
    /\ LET r == SlClosed(state, symbol)
       IN  /\ n \in 1..Len(r.log)
           /\ trade_log' = trade_log \o SubSeq(r.log, 1, n - 1)
    /\ UNCHANGED <<state, handler, reply, monitor>>

\* _handle_half_close: log_trade("PARTIAL_CLOSE", ...) raises for the n-th
\* position of the symbol whose TP1 is pending, inside the loop and before
\* save_state(state).
HandleHalfCloseLogFails(symbol, n) ==
    /\ handler.pc = "idle"
    /\ LET r == HalfClosed(state, symbol)
       IN  /\ n \in 1..Len(r.log)
           /\ trade_log' = trade_log \o SubSeq(r.log, 1, n - 1)
    /\ UNCHANGED <<state, handler, reply, monitor>>

-----------------------------------------------------------------------------
(* position_manager: market data of one cycle                              *)

\* tickers.get(symbol) is None / candles_5m has no entry / macd_dfs has no
\* usable entry for the symbol.
NoTicker == [ok |-> FALSE]
NoCandle == [ok |-> FALSE]
NoMacd == [ok |-> FALSE]

LastPrices == {R(982), R(1000), R(1027)}
\* <<high, low>> of the last closed 5-minute candle.
CandleWicks == {<<R(1027), R(982)>>, <<R(1000), R(973)>>, <<R(1027), R(1000)>>}
\* <<ml_prev, ms_prev, ml_curr, ms_curr>> of the 1-hour MACD line and signal.
MacdCrosses == {<<0, 0, -1, 0>>, <<0, 0, 1, 0>>, <<1, 0, 1, 0>>}

TickerValues == {NoTicker} \cup {[ok |-> TRUE, last |-> x] : x \in LastPrices}
CandleValues ==
    {NoCandle} \cup {[ok |-> TRUE, high |-> w[1], low |-> w[2]] : w \in CandleWicks}
MacdValues ==
    {NoMacd} \cup {[ok |-> TRUE, ml_prev |-> m[1], ms_prev |-> m[2],
                    ml_curr |-> m[3], ms_curr |-> m[4]] : m \in MacdCrosses}

PositionSymbols(positions) ==
    {positions[i].symbol : i \in DOMAIN positions}

\* _fetch_position_data: the symbols whose 1-hour candles are fetched.
Tp1HitSymbols(positions) ==
    {positions[i].symbol : i \in {j \in DOMAIN positions : positions[j].tp1_hit}}

-----------------------------------------------------------------------------
(* position_manager._check_sl_breach, _check_tp1, _check_macd_exit         *)

\* A breach only when the stop is passed, not when it is touched.
CheckSlPassed(side, current_price, sl, candle_5m) ==
    \/ /\ candle_5m.ok
       /\ \/ side = "LONG" /\ RLt(candle_5m.low, sl)
          \/ side = "SHORT" /\ RLt(sl, candle_5m.high)
    \/ side = "LONG" /\ RLt(current_price, sl)
    \/ side = "SHORT" /\ RLt(sl, current_price)

CheckSlBreach(side, current_price, sl, candle_5m) ==
    \/ /\ candle_5m.ok
       /\ \/ side = "LONG" /\ RLe(candle_5m.low, sl)
          \/ side = "SHORT" /\ RLe(sl, candle_5m.high)
    \/ side = "LONG" /\ RLe(current_price, sl)
    \/ side = "SHORT" /\ RLe(sl, current_price)

CheckTp1(side, current_price, tp1, candle_5m) ==
    \/ /\ candle_5m.ok
       /\ \/ side = "LONG" /\ RLe(tp1, candle_5m.high)
          \/ side = "SHORT" /\ RLe(candle_5m.low, tp1)
    \/ side = "LONG" /\ RLe(tp1, current_price)
    \/ side = "SHORT" /\ RLe(current_price, tp1)

\* A cross of the MACD line over its signal in either direction.
CheckMacdCrossed(side, df) ==
    \/ df.ml_prev >= df.ms_prev /\ df.ml_curr < df.ms_curr
    \/ df.ml_prev <= df.ms_prev /\ df.ml_curr > df.ms_curr

CheckMacdExit(side, df) ==
    \/ side = "LONG" /\ df.ml_prev >= df.ms_prev /\ df.ml_curr < df.ms_curr
    \/ side = "SHORT" /\ df.ml_prev <= df.ms_prev /\ df.ml_curr > df.ms_curr

\* The denial cap of _check_position.
DENIAL_CAP == 2

\* _check_position: the confirmation request sent for position p, if any.
CheckPosition(p, tickers, candles_5m, macd_dfs) ==
    LET ticker == tickers[p.symbol]
    IN  IF ~ticker.ok THEN "none"
        ELSE IF CheckSlBreach(p.side, ticker.last, p.current_sl, candles_5m[p.symbol])
        THEN IF p.denial_count < DENIAL_CAP THEN "sl_breach" ELSE "none"
        ELSE IF /\ ~p.tp1_hit
                /\ RLt(R(0), p.tp1_price)
                /\ CheckTp1(p.side, ticker.last, p.tp1_price, candles_5m[p.symbol])
        THEN "tp1_hit"
        ELSE IF /\ p.tp1_hit
                /\ macd_dfs[p.symbol].ok
                /\ p.denial_count < DENIAL_CAP
                /\ CheckMacdExit(p.side, macd_dfs[p.symbol])
        THEN "momentum_exit"
        ELSE "none"

\* A reset of the denial counter whatever the cycle saw.
ResetAlways(p, tickers, candles_5m) == [p EXCEPT !.denial_count = 0]

\* position_monitor, the loop after the checks: the denial counter of a
\* position whose ticker is present and whose stop is not breached is reset.
ResetDenial(p, tickers, candles_5m) ==
    LET ticker == tickers[p.symbol]
    IN  IF ticker.ok
           /\ ~CheckSlBreach(p.side, ticker.last, p.current_sl, candles_5m[p.symbol])
        THEN [p EXCEPT !.denial_count = 0]
        ELSE p

-----------------------------------------------------------------------------
(* position_manager.position_monitor                                       *)

\* load_state; the cycle returns at once when there is no open position.
\* The cycle then awaits its fetches.
MonitorLoad ==
    /\ monitor.pc \in {"idle", "saved", "raised"}
    /\ state.active_positions # <<>>
    /\ monitor' = [pc |-> "fetch", loaded |-> state]
    /\ UNCHANGED <<state, trade_log, handler, reply>>

\* The requests _check_position sends, position by position.
Alerts(positions, tickers, candles_5m, macd_dfs) ==
    [i \in DOMAIN positions |->
        CheckPosition(positions[i], tickers, candles_5m, macd_dfs)]

\* The state the cycle saves: the state it loaded, after the reset loop.
MonitorSavedState(st, tickers, candles_5m) ==
    [st EXCEPT !.active_positions =
        [i \in DOMAIN st.active_positions |->
            ResetDenial(st.active_positions[i], tickers, candles_5m)]]

\* The fetches complete: every position of the loaded state is checked, the
\* requests are sent, the denial counters are reset and the loaded state is
\* saved.  The monitor keeps no state between cycles; the record of the
\* cycle (what it loaded, fetched, sent and saved) stays readable until the
\* next cycle starts.
MonitorRun(tickers, candles_5m, macd_dfs) ==
    /\ monitor.pc = "fetch"
    /\ LET st == MonitorSavedState(monitor.loaded, tickers, candles_5m)
       IN  /\ state' = st
           /\ monitor' = [pc |-> "saved",
                          loaded |-> monitor.loaded,
                          tickers |-> tickers,
                          candles_5m |-> candles_5m,
                          macd_dfs |-> macd_dfs,
                          alerts |-> Alerts(monitor.loaded.active_positions,
                                            tickers, candles_5m, macd_dfs),
                          saved |-> st]
    /\ UNCHANGED <<trade_log, handler, reply>>

\* exchange.fetch_tickers raises: the call is inside a try with a finally
\* clause only, so the exchange is closed and the exception leaves
\* position_monitor.  No position is checked, no denial counter is reset
\* and save_state is not reached.
MonitorTickersFail ==
    /\ monitor.pc = "fetch"
    /\ monitor' = [pc |-> "raised", loaded |-> monitor.loaded]
    /\ UNCHANGED <<state, trade_log, handler, reply>>

-----------------------------------------------------------------------------
(* bot.signal_scanner: the hourly scan job                                 *)

\* The alerts a scan sends raise the count of their <<key, origin>>.
AlertsSent(out, keys, origin) ==
    [a \in AlertKinds |-> IF a[1] \in keys /\ a[2] = origin THEN out[a] + 1 ELSE out[a]]

\* load_state; the job returns at once unless bot_status is "ready".  It
\* then awaits scan_market.
ScannerLoad ==
    /\ scanner.pc = "idle"
    /\ IF state.bot_status # "ready"
       THEN scanner' = IdleScanner
       ELSE scanner' = [pc |-> "scan", loaded |-> state]
    /\ UNCHANGED <<state, trade_log, handler, reply, monitor, alerts, filevars>>

\* for sig in signals: a key of sent_signals is skipped, every other signal
\* is sent as an alert.
ScannerFresh(sent_signals, signals) == {k \in signals : k \notin sent_signals}

\* new_sent: the keys sent in this run, and the keys of sent_signals that
\* are in active_sig_keys.
ScannerSent(sent_signals, signals) ==
    ScannerFresh(sent_signals, signals) \cup {k \in sent_signals : k \in signals}

\* scan_market returns signals: the alerts are sent and the loaded state is
\* saved with the new sent_signals.  The job keeps no state between runs;
\* the signals of the last run stay readable.
ScannerRun(signals) ==
    /\ scanner.pc = "scan"
    /\ LET sent_signals == scanner.loaded.sent_signals
           fresh == ScannerFresh(sent_signals, signals)
           st == [scanner.loaded EXCEPT
                     !.sent_signals = ScannerSent(sent_signals, signals)]
       IN  /\ state' = st
           /\ alerts' = [alerts EXCEPT !.out = AlertsSent(alerts.out, fresh, "scanner")]
           /\ scanner' = [pc |-> "idle", signals |-> signals]
    /\ UNCHANGED <<trade_log, handler, reply, monitor, filevars>>

-----------------------------------------------------------------------------
(* telegram_handlers.afk and ready: the operating mode.  The chat is       *)
(* registered.                                                             *)

\* The safety levels /afk lists for the positions: 4 % and 10 % away from
\* the ticker's last price; a position without ticker is left out.
AfkLevels(positions, tickers) ==
    [i \in DOMAIN positions |->
        LET ticker == tickers[positions[i].symbol]
        IN  IF ~ticker.ok THEN [ok |-> FALSE]
            ELSE IF positions[i].side = "LONG"
            THEN [ok |-> TRUE,
                  afk_sl |-> RMul(ticker.last, <<96, 100>>),
                  afk_tp |-> RMul(ticker.last, <<110, 100>>)]
            ELSE [ok |-> TRUE,
                  afk_sl |-> RMul(ticker.last, <<104, 100>>),
                  afk_tp |-> RMul(ticker.last, <<90, 100>>)]]

\* /afk: the state is loaded and its mode set.  Without positions it is
\* saved at once; with positions the command awaits fetch_tickers first.
HandleAfkStart ==
    /\ handler.pc = "idle"
    /\ IF state.active_positions = <<>>
       THEN /\ state' = [state EXCEPT !.bot_status = "afk"]
            /\ reply' = [kind |-> "afk", symbol |-> "none", levels |-> <<>>]
            /\ UNCHANGED handler
       ELSE /\ handler' = [pc |-> "afk", state |-> [state EXCEPT !.bot_status = "afk"]]
            /\ UNCHANGED <<state, reply>>
    /\ UNCHANGED <<trade_log, monitor, scanvars, filevars>>

\* fetch_tickers returns: the state loaded before the await is saved and
\* the levels are sent.
HandleAfkFinish(tickers) ==
    /\ handler.pc = "afk"
    /\ state' = handler.state
    /\ reply' = [kind |-> "afk", symbol |-> "none",
                 levels |-> AfkLevels(handler.state.active_positions, tickers)]
    /\ handler' = IdleHandler
    /\ UNCHANGED <<trade_log, monitor, scanvars, filevars>>

\* fetch_tickers raises: the command ends before save_state.
HandleAfkFetchFails ==
    /\ handler.pc = "afk"
    /\ handler' = IdleHandler
    /\ UNCHANGED <<state, trade_log, reply, monitor, scanvars, filevars>>

\* /ready
HandleReady ==
    /\ handler.pc = "idle"
    /\ state' = [state EXCEPT !.bot_status = "ready"]
    /\ reply' = [kind |-> "ready", symbol |-> "none"]
    /\ UNCHANGED <<trade_log, handler, monitor, scanvars, filevars>>

-----------------------------------------------------------------------------
(* telegram_handlers.scan: the /scan command                               *)

\* load_state, then the command awaits scan_market.
ScanStart ==
    /\ handler.pc = "idle"
    /\ handler' = [pc |-> "scan", state |-> state]
    /\ UNCHANGED <<state, trade_log, reply, monitor, scanner, alerts, filevars>>

\* open_positions_set
OpenPositionKeys(positions) ==
    {<<positions[i].symbol, positions[i].side>> : i \in DOMAIN positions}

\* The signals /scan sends: neither the key of an open position nor a key
\* of sent_signals.
ScanFresh(st, signals) ==
    {k \in signals : k \notin OpenPositionKeys(st.active_positions)
                     /\ k \notin st.sent_signals}

\* new_sent = dict(sent_signals), and the keys sent are added.
ScanSent(st, signals) == st.sent_signals \cup ScanFresh(st, signals)

\* scan_market returns signals.  With no signal the command replies and
\* returns; otherwise it sends the alerts and saves the loaded state with
\* the new sent_signals.  The summary it replies lists the signals found.
ScanFinish(signals) ==
    /\ handler.pc = "scan"
    /\ IF signals = {}
       THEN /\ reply' = [kind |-> "no_signals", symbol |-> "none", signals |-> signals]
            /\ UNCHANGED <<state, alerts>>
       ELSE /\ state' = [handler.state EXCEPT
                            !.sent_signals = ScanSent(handler.state, signals)]
            /\ alerts' = [alerts EXCEPT !.out =
                   AlertsSent(alerts.out, ScanFresh(handler.state, signals), "scan")]
            /\ reply' = [kind |-> "scanned", symbol |-> "none", signals |-> signals]
    /\ handler' = IdleHandler
    /\ UNCHANGED <<trade_log, monitor, scanner, filevars>>

-----------------------------------------------------------------------------
(* telegram_handlers.scan: the alert of a signal                           *)

\* preview_sl and preview_tp1 of the alert.
PreviewLevels(side, price, atr_val) ==
    LET initial_risk == IF RLt(R(0), atr_val)
                        THEN RMul(ATR_MULTIPLIER, atr_val)
                        ELSE RMul(price, <<4, 100>>)
    IN  IF side = "LONG"
        THEN [sl  |-> RSub(price, initial_risk),
              tp1 |-> RAdd(price, RMul(initial_risk, TP1_RR_RATIO))]
        ELSE [sl  |-> RAdd(price, initial_risk),
              tp1 |-> RSub(price, RMul(initial_risk, TP1_RR_RATIO))]

\* f"{atr_val:.4f}": the text of a float with four decimals, held as its
\* count of ten-thousandths.
FormatFixed4(x) == RoundHalfEven(RMul(x, R(10000)))

\* float(parts[3]) of such a text.
ParseFixed4(n) == Norm(n, 10000)

\* callback_data of the Opened button, split at its underscores.
OpenToken(side, symbol, atr_val, path) ==
    <<"open", side, symbol, FormatFixed4(atr_val), path>>

\* /scan when scan_market returns the one signal sig = <<symbol, side,
\* price, atr, path>>: a signal whose key is an open position or in
\* sent_signals is discarded, otherwise the alert with its preview levels
\* and its Opened button is sent and the key is saved in sent_signals.
ScanAlert(sig) ==
    /\ handler.pc = "idle"
    /\ IF <<sig[1], sig[2]>> \in ScanFresh(state, {<<sig[1], sig[2]>>})
       THEN /\ reply' = [kind        |-> "alert",
                         symbol      |-> sig[1],
                         side        |-> sig[2],
                         price       |-> sig[3],
                         atr_val     |-> sig[4],
                         preview_sl  |-> PreviewLevels(sig[2], sig[3], sig[4]).sl,
                         preview_tp1 |-> PreviewLevels(sig[2], sig[3], sig[4]).tp1,
                         token       |-> OpenToken(sig[2], sig[1], sig[4], sig[5])]
            /\ state' = [state EXCEPT !.sent_signals =
                            ScanSent(state, {<<sig[1], sig[2]>>})]
       ELSE /\ reply' = [kind |-> "discarded", symbol |-> sig[1]]
            /\ UNCHANGED state
    /\ UNCHANGED <<trade_log, handler, monitor, scanvars, filevars>>

\* The Opened button of the alert shown is pressed: _handle_open splits the
\* token and reads the ATR back from its text.
HandleAlertOpen ==
    /\ reply.kind = "alert"
    /\ HandleOpenStart(reply.token[2], reply.token[3],
                       ParseFixed4(reply.token[4]), reply.token[5])

-----------------------------------------------------------------------------
(* telegram_handlers.button_handler: the ignore_ token                     *)

\* Every key is dropped.
IgnoredAll(sent_signals, parts) ==
    IF Len(parts) >= 3 THEN {} ELSE sent_signals

\* parts = data.split("_", 2): the key parts[1]_parts[2] is deleted when
\* the token carries a side.  The alerts of the hourly job carry
\* ignore_{symbol}, which splits in two parts, and delete nothing.
Ignored(sent_signals, parts) ==
    IF Len(parts) >= 3 THEN sent_signals \ {<<parts[2], parts[3]>>} ELSE sent_signals

\* The state is saved when a key was deleted; the alert is replaced by
\* "Ignored signal." in both cases.
HandleIgnore(parts) ==
    /\ handler.pc = "idle"
    /\ state' = [state EXCEPT !.sent_signals = Ignored(state.sent_signals, parts)]
    /\ reply' = [kind |-> "ignored", symbol |-> parts[2]]
    /\ UNCHANGED <<trade_log, handler, monitor, scanner, filevars>>

-----------------------------------------------------------------------------
(* Python values and their JSON text (json.dump, json.load)                *)

PyFloat(r) == [t |-> "float", v |-> r]
PyInt(n) == [t |-> "int", v |-> n]
PyStr(str) == [t |-> "str", v |-> str]
PyBool(b) == [t |-> "bool", v |-> b]
PyList(items) == [t |-> "list", v |-> items]
PyTuple(items) == [t |-> "tuple", v |-> items]
\* A dict is the list of its <<key, value>> pairs in insertion order; the
\* keys are strings.
PyDict(pairs) == [t |-> "dict", v |-> pairs]

Tok(k) == [k |-> k]
StrTok(str) == [k |-> "string", v |-> str]

\* A float is written as the integer it rounds down to.
NumTokInt(x) ==
    IF x.t = "float"
    THEN [k |-> "number", float |-> FALSE, v |-> x.v[1] \div x.v[2]]
    ELSE [k |-> "number", float |-> FALSE, v |-> x.v]

\* float.__repr__ writes a literal with a point or an exponent, which reads
\* back as the same float; an int is written without.
NumTok(x) ==
    IF x.t = "float"
    THEN [k |-> "number", float |-> TRUE, v |-> x.v]
    ELSE [k |-> "number", float |-> FALSE, v |-> x.v]

\* json.dump: the tokens of the text written for a value.  A tuple is
\* written as a list.
RECURSIVE JsonDump(_), DumpItems(_, _), DumpPairs(_, _)
JsonDump(x) ==
    CASE x.t \in {"float", "int"} -> <<NumTok(x)>>
      [] x.t = "str"   -> <<StrTok(x.v)>>
      [] x.t = "bool"  -> <<Tok(IF x.v THEN "true" ELSE "false")>>
      [] x.t = "none"  -> <<Tok("null")>>
      [] x.t \in {"list", "tuple"} -> <<Tok("[")>> \o DumpItems(x.v, 1) \o <<Tok("]")>>
      [] x.t = "dict"  -> <<Tok("{")>> \o DumpPairs(x.v, 1) \o <<Tok("}")>>
DumpItems(items, i) ==
    IF i > Len(items) THEN <<>>
    ELSE (IF i > 1 THEN <<Tok(",")>> ELSE <<>>)
         \o JsonDump(items[i]) \o DumpItems(items, i + 1)
DumpPairs(pairs, i) ==
    IF i > Len(pairs) THEN <<>>
    ELSE (IF i > 1 THEN <<Tok(",")>> ELSE <<>>)
         \o <<StrTok(pairs[i][1]), Tok(":")>>
         \o JsonDump(pairs[i][2]) \o DumpPairs(pairs, i + 1)

\* json.load: the value read from position i of a text, and the position
\* after it; ok is FALSE where the decoder raises JSONDecodeError.
ParseFailed == [ok |-> FALSE, v |-> PyNone, next |-> 0]
Parsed(x, next) == [ok |-> TRUE, v |-> x, next |-> next]

RECURSIVE ParseValue(_, _), ParseItems(_, _, _), ParsePairs(_, _, _)
ParseValue(text, i) ==
    IF i > Len(text) THEN ParseFailed
    ELSE LET tk == text[i]
         IN  CASE tk.k = "number" ->
                    Parsed(IF tk.float THEN PyFloat(tk.v) ELSE PyInt(tk.v), i + 1)
               [] tk.k = "string" -> Parsed(PyStr(tk.v), i + 1)
               [] tk.k = "true"   -> Parsed(PyBool(TRUE), i + 1)
               [] tk.k = "false"  -> Parsed(PyBool(FALSE), i + 1)
               [] tk.k = "null"   -> Parsed(PyNone, i + 1)
               [] tk.k = "["      ->
                    IF i + 1 <= Len(text) /\ text[i + 1].k = "]"
                    THEN Parsed(PyList(<<>>), i + 2)
                    ELSE ParseItems(text, i + 1, <<>>)
               [] tk.k = "{"      ->
                    IF i + 1 <= Len(text) /\ text[i + 1].k = "}"
                    THEN Parsed(PyDict(<<>>), i + 2)
                    ELSE ParsePairs(text, i + 1, <<>>)
               [] OTHER -> ParseFailed
\* The items of a list from position i, after the items of acc.
ParseItems(text, i, acc) ==
    LET r == ParseValue(text, i)
    IN  IF ~r.ok \/ r.next > Len(text) THEN ParseFailed
        ELSE IF text[r.next].k = "," THEN ParseItems(text, r.next + 1, Append(acc, r.v))
        ELSE IF text[r.next].k = "]" THEN Parsed(PyList(Append(acc, r.v)), r.next + 1)
        ELSE ParseFailed
\* The pairs of a dict from position i, after the pairs of acc.
ParsePairs(text, i, acc) ==
    IF i + 1 > Len(text) \/ text[i].k # "string" \/ text[i + 1].k # ":"
    THEN ParseFailed
    ELSE LET r == ParseValue(text, i + 2)
             pairs == Append(acc, <<text[i].v, r.v>>)
         IN  IF ~r.ok \/ r.next > Len(text) THEN ParseFailed
             ELSE IF text[r.next].k = "," THEN ParsePairs(text, r.next + 1, pairs)
             ELSE IF text[r.next].k = "}" THEN Parsed(PyDict(pairs), r.next + 1)
             ELSE ParseFailed

\* json.load(f): the whole text is one value.
JsonLoad(text) ==
    LET r == ParseValue(text, 1)
    IN  IF r.ok /\ r.next = Len(text) + 1 THEN r ELSE ParseFailed

-----------------------------------------------------------------------------
(* state_manager.load_state and save_state on the files                    *)

\* default_state of load_state.
default_state ==
    PyDict(<< <<"portfolio_balance", PyFloat(R(25000))>>,
              <<"available_cash", PyFloat(R(25000))>>,
              <<"tied_capital", PyFloat(R(0))>>,
              <<"bot_status", PyStr("ready")>>,
              <<"active_positions", PyList(<<>>)>> >>)

\* The rename is lost: the files stay as they are.
ReplaceKept(fs, src, dst) == fs

\* os.replace(src, dst): dst holds what src held, src is gone; a file
\* renamed onto itself stays.
Replace(fs, src, dst) ==
    IF src = dst THEN fs ELSE [fs EXCEPT ![dst] = fs[src], ![src] = Absent]

\* open(path, "w"): the file exists and is empty.
Opened(fs, path) == [fs EXCEPT ![path] = [exists |-> TRUE, text |-> <<>>]]

\* load_state.  With state.json absent the default state is created and
\* save_state(default_state) starts: the temporary file is opened.  Else
\* the text of state.json is decoded and returned; a text that does not
\* decode raises.
LoadState ==
    /\ proc.pc \in {"idle", "loaded", "saved"}
    /\ IF ~files[STATE_FILE].exists
       THEN /\ proc' = [proc EXCEPT !.pc = "write", !.mem = default_state,
                                    !.created = TRUE]
            /\ files' = Opened(files, TmpName(STATE_FILE))
       ELSE /\ LET r == JsonLoad(files[STATE_FILE].text)
               IN  proc' = IF r.ok
                           THEN [proc EXCEPT !.pc = "loaded", !.mem = r.v,
                                             !.created = FALSE]
                           ELSE [proc EXCEPT !.pc = "raised", !.mem = PyNone,
                                             !.created = FALSE]
            /\ UNCHANGED files
    /\ UNCHANGED <<state, trade_log, handler, reply, monitor, scanvars>>

\* A handler or a cycle changes the state it loaded into s, in memory.
Mutate(s) ==
    /\ proc.pc \in {"loaded", "saved"}
    /\ proc' = [proc EXCEPT !.pc = "mutated", !.mem = s]
    /\ UNCHANGED <<state, trade_log, handler, reply, monitor, scanvars, files>>

\* save_state(state): the temporary file is opened.
SaveOpen ==
    /\ proc.pc = "mutated"
    /\ proc' = [proc EXCEPT !.pc = "write", !.created = FALSE]
    /\ files' = Opened(files, TmpName(STATE_FILE))
    /\ UNCHANGED <<state, trade_log, handler, reply, monitor, scanvars>>

\* json.dump(state, f): the text reaches the temporary file piece by piece.
SaveWrite ==
    /\ proc.pc = "write"
    /\ LET tmp_file == TmpName(STATE_FILE)
           text == JsonDump(proc.mem)
           n == Len(files[tmp_file].text)
       IN  /\ n < Len(text)
           /\ files' = [files EXCEPT ![tmp_file].text = Append(@, text[n + 1])]
    /\ UNCHANGED <<state, trade_log, handler, reply, monitor, scanvars, proc>>

\* The text is complete: the file is closed and os.replace(tmp_file,
\* STATE_FILE) ends save_state.  load_state then returns default_state.
SaveReplace ==
    /\ proc.pc = "write"
    /\ LET tmp_file == TmpName(STATE_FILE)
       IN  /\ Len(files[tmp_file].text) = Len(JsonDump(proc.mem))
           /\ files' = Replace(files, tmp_file, STATE_FILE)
    /\ proc' = [proc EXCEPT !.pc = IF proc.created THEN "loaded" ELSE "saved",
                            !.saved = proc.mem]
    /\ UNCHANGED <<state, trade_log, handler, reply, monitor, scanvars>>

\* The process dies at any point: the memory is lost, the files stay.
Crash ==
    /\ proc.pc # "down"
    /\ proc' = [proc EXCEPT !.pc = "down", !.mem = PyNone, !.created = FALSE]
    /\ UNCHANGED <<state, trade_log, handler, reply, monitor, scanvars, files>>

\* The bot is started again.
Restart ==
    /\ proc.pc = "down"
    /\ proc' = [proc EXCEPT !.pc = "idle"]
    /\ UNCHANGED <<state, trade_log, handler, reply, monitor, scanvars, files>>

-----------------------------------------------------------------------------
(* state_manager.log_trade on the file                                     *)

\* The entry dict of log_trade; the float timestamp is written as its ISO
\* string, pnl is None or a float.
LogEntry(action, symbol, side, price, sl, pnl) ==
    PyDict(<< <<"action", PyStr(action)>>,
              <<"symbol", PyStr(symbol)>>,
              <<"side", PyStr(side)>>,
              <<"price", PyFloat(price)>>,
              <<"sl", PyFloat(sl)>>,
              <<"timestamp", PyStr("2024-01-01T00:00:00+00:00")>>,
              <<"pnl", pnl>> >>)

\* Any failure to decode the log is raised to the caller.
ReadLogStrict(f) ==
    IF ~f.exists THEN [raised |-> FALSE, log_data |-> <<>>]
    ELSE LET r == JsonLoad(f.text)
         IN  IF r.ok /\ r.v.t = "list"
             THEN [raised |-> FALSE, log_data |-> r.v.v]
             ELSE [raised |-> TRUE, log_data |-> <<>>]

\* log_data = []; the log is read when the file exists; JSONDecodeError is
\* passed over and log_data stays [].  A text that decodes to something
\* other than a list makes log_data.append raise.
ReadLog(f) ==
    IF ~f.exists THEN [raised |-> FALSE, log_data |-> <<>>]
    ELSE LET r == JsonLoad(f.text)
         IN  IF ~r.ok THEN [raised |-> FALSE, log_data |-> <<>>]
             ELSE IF r.v.t = "list" THEN [raised |-> FALSE, log_data |-> r.v.v]
             ELSE [raised |-> TRUE, log_data |-> <<>>]

\* log_trade up to log_data.append(entry).
LogTradeRead(entry) ==
    /\ proc.pc = "idle"
    /\ LET r == ReadLog(files[TRADE_LOG_FILE])
       IN  proc' = IF r.raised
                   THEN [proc EXCEPT !.pc = "raised"]
                   ELSE [proc EXCEPT !.pc = "logread",
                                     !.mem = PyList(Append(r.log_data, entry))]
    /\ UNCHANGED <<state, trade_log, handler, reply, monitor, scanvars, files>>

\* open(TRADE_LOG_FILE, "w"): the log is written in place.
LogTradeOpen ==
    /\ proc.pc = "logread"
    /\ proc' = [proc EXCEPT !.pc = "logwrite"]
    /\ files' = Opened(files, TRADE_LOG_FILE)
    /\ UNCHANGED <<state, trade_log, handler, reply, monitor, scanvars>>

\* json.dump(log_data, f): the text reaches the file piece by piece.
LogTradeWrite ==
    /\ proc.pc = "logwrite"
    /\ LET text == JsonDump(proc.mem)
           n == Len(files[TRADE_LOG_FILE].text)
       IN  /\ n < Len(text)
           /\ files' = [files EXCEPT ![TRADE_LOG_FILE].text = Append(@, text[n + 1])]
    /\ UNCHANGED <<state, trade_log, handler, reply, monitor, scanvars, proc>>

\* The text is complete: the file is closed and log_trade returns.
LogTradeReturn ==
    /\ proc.pc = "logwrite"
    /\ Len(files[TRADE_LOG_FILE].text) = Len(JsonDump(proc.mem))
    /\ proc' = [proc EXCEPT !.pc = "idle", !.mem = PyNone]
    /\ UNCHANGED <<state, trade_log, handler, reply, monitor, scanvars, files>>

-----------------------------------------------------------------------------
(* Floats that may be NaN, and the built-ins min, max, abs and sum on them *)

\* float('nan'): every comparison with it is false, every sum, product and
\* quotient with it is NaN.
NaN == <<0, 0>>
IsNaN(x) == x[2] = 0

FLt(a, b) == ~IsNaN(a) /\ ~IsNaN(b) /\ RLt(a, b)
FAdd(a, b) == IF IsNaN(a) \/ IsNaN(b) THEN NaN ELSE RAdd(a, b)
FSub(a, b) == IF IsNaN(a) \/ IsNaN(b) THEN NaN ELSE RSub(a, b)
FMul(a, b) == IF IsNaN(a) \/ IsNaN(b) THEN NaN ELSE RMul(a, b)
FDiv(a, b) == IF IsNaN(a) \/ IsNaN(b) THEN NaN ELSE RDiv(a, b)
FAbs(a) == IF IsNaN(a) THEN NaN ELSE <<Abs(a[1]), a[2]>>

\* min(a, b) and max(a, b): the first argument unless the second is
\* smaller, respectively larger.
PyMin(a, b) == IF FLt(b, a) THEN b ELSE a
PyMax(a, b) == IF FLt(a, b) THEN b ELSE a

\* max(items) and sum(items) of a list, left to right.
RECURSIVE ListMaxFrom(_, _, _)
ListMaxFrom(items, i, acc) ==
    IF i > Len(items) THEN acc
    ELSE ListMaxFrom(items, i + 1, PyMax(acc, items[i]))

ListMax(items) == ListMaxFrom(items, 2, items[1])

RECURSIVE ListSumFrom(_, _, _)
ListSumFrom(items, i, acc) ==
    IF i > Len(items) THEN acc
    ELSE ListSumFrom(items, i + 1, FAdd(acc, items[i]))

ListSum(items) == ListSumFrom(items, 1, R(0))

\* d.get(key, default)
DictGet(d, key, default) == IF key \in DOMAIN d THEN d[key] ELSE default

-----------------------------------------------------------------------------
(* scanner.compute_signal_score                                            *)

\* 1. MACD histogram magnitude.
MacdMagnitude(indicator_data) ==
    LET hist_series == DictGet(indicator_data, "macd_hist_series", <<>>)
        hist_current == FAbs(DictGet(indicator_data, "macd_hist_current", R(0)))
    IN  IF Len(hist_series) >= 2
        THEN LET hist_abs == [i \in DOMAIN hist_series |-> FAbs(hist_series[i])]
                 hist_max == IF FLt(R(0), ListMax(hist_abs))
                             THEN ListMax(hist_abs) ELSE R(1)
             IN  PyMin(R(100), FMul(FDiv(hist_current, hist_max), R(100)))
        ELSE R(50)

\* 2. MACD histogram acceleration.
MacdAcceleration(indicator_data) ==
    LET hist_current == FAbs(DictGet(indicator_data, "macd_hist_current", R(0)))
        hist_prev == FAbs(DictGet(indicator_data, "macd_hist_previous", R(0)))
    IN  IF FLt(R(0), hist_prev)
        THEN LET acceleration ==
                     PyMax(R(-1), PyMin(R(3),
                         FDiv(FSub(hist_current, hist_prev), hist_prev)))
             IN  FMul(FDiv(FAdd(acceleration, R(1)), R(4)), R(100))
        ELSE IF FLt(R(0), hist_current) THEN R(100)
        ELSE R(50)

\* 3. EMA 20/50 spread.
EmaSpread(indicator_data) ==
    LET ema20 == DictGet(indicator_data, "ema20", R(0))
        ema50 == DictGet(indicator_data, "ema50", R(0))
    IN  IF FLt(R(0), ema50)
        THEN LET ema_spread_pct ==
                     FMul(FDiv(FAbs(FSub(ema20, ema50)), ema50), R(100))
             IN  PyMin(R(100), FMul(FDiv(ema_spread_pct, R(3)), R(100)))
        ELSE R(50)

\* 4. Volume spike.
VolumeScore(indicator_data) ==
    LET vol_series == DictGet(indicator_data, "volume_series", <<>>)
        vol_current == DictGet(indicator_data, "volume_current", R(0))
    IN  IF Len(vol_series) >= 2
        THEN LET vol_avg == FDiv(ListSum(vol_series), R(Len(vol_series)))
             IN  IF FLt(R(0), vol_avg)
                 THEN LET vol_ratio == FDiv(vol_current, vol_avg)
                      IN  PyMin(R(100), PyMax(R(0),
                              FMul(FDiv(FSub(vol_ratio, <<1, 2>>), <<3, 2>>),
                                   R(100))))
                 ELSE R(50)
        ELSE R(50)

\* 5. ATR-relative price move.
AtrMove(indicator_data) ==
    LET candle_body == DictGet(indicator_data, "candle_body", R(0))
        atr_val == DictGet(indicator_data, "atr_val", R(0))
    IN  IF FLt(R(0), atr_val)
        THEN LET body_atr_ratio == FDiv(candle_body, atr_val)
             IN  PyMin(R(100), PyMax(R(0),
                     FMul(FDiv(body_atr_ratio, <<3, 2>>), R(100))))
        ELSE R(50)

\* A relative strength mapped without its clamp.
BtcRelativeUnclamped(rs) ==
    FMul(FDiv(FAdd(rs, <<1, 20>>), <<1, 10>>), R(100))

\* 6. Relative strength vs BTC.
BtcRelative(rs) ==
    PyMin(R(100), PyMax(R(0),
        FMul(FDiv(FAdd(rs, <<1, 20>>), <<1, 10>>), R(100))))

ScoreNames ==
    <<"macd_magnitude", "macd_acceleration", "ema_spread", "volume",
      "atr_move", "btc_relative">>

weights ==
    [macd_magnitude    |-> <<1, 5>>,
     macd_acceleration |-> <<3, 20>>,
     ema_spread        |-> <<3, 20>>,
     volume            |-> <<1, 5>>,
     atr_move          |-> <<3, 20>>,
     btc_relative      |-> <<3, 20>>]

\* sum(scores[k] * weights[k] for k in weights)
WeightedSum(scores) ==
    ListSum([i \in DOMAIN ScoreNames |->
                FMul(scores[ScoreNames[i]], weights[ScoreNames[i]])])

\* round(x) of a float; round(nan) raises ValueError.
PyRound(x) == IF IsNaN(x) THEN "ValueError" ELSE RoundHalfEven(x)

\* The six scores are computed once and bound as a value.
compute_signal_score(indicator_data, btc_relative_strength) ==
    CHOOSE score_data \in
        {[composite  |-> PyRound(PyMin(R(100), PyMax(R(0), WeightedSum(scores)))),
          components |-> scores] :
            scores \in
               {[macd_magnitude    |-> MacdMagnitude(indicator_data),
                 macd_acceleration |-> MacdAcceleration(indicator_data),
                 ema_spread        |-> EmaSpread(indicator_data),
                 volume            |-> VolumeScore(indicator_data),
                 atr_move          |-> AtrMove(indicator_data),
                 btc_relative      |-> BtcRelative(btc_relative_strength)]}} : TRUE

\* The scorer is called on a snapshot.
ScoreSignal ==
    /\ scanner.pc = "score"
    /\ scanner' = [pc |-> "scored",
                   indicator_data |-> scanner.indicator_data,
                   btc_relative_strength |-> scanner.btc_relative_strength,
                   score_data |-> compute_signal_score(scanner.indicator_data,
                                      scanner.btc_relative_strength)]
    /\ UNCHANGED <<state, trade_log, handler, reply, monitor, alerts, filevars>>

-----------------------------------------------------------------------------
(* scanner.fetch_ohlcv, check_4h_trend, check_1h_entry, get_btc_pct_change *)

\* fetch_ohlcv returns None: the exchange call raised and the exception
\* was logged.
FetchFailed == [ok |-> FALSE]

\* A regime from 200 candles on.
check_4h_trend_200(df) ==
    IF ~df.ok \/ df.len < 200 THEN "None"
    ELSE IF IsNaN(df.ema200) THEN "None"
    ELSE IF FLt(df.ema200, df.close) THEN "LONG"
    ELSE IF FLt(df.close, df.ema200) THEN "SHORT"
    ELSE "None"

\* A fetched 4-hour series is held as its length and, at the last closed
\* candle (iloc[-2]), its close and the EMA-200 pandas_ta computed there.
\* Returns "LONG", "SHORT" or "None".
check_4h_trend(df) ==
    IF ~df.ok \/ df.len < 201 THEN "None"
    ELSE IF IsNaN(df.ema200) THEN "None"
    ELSE IF FLt(df.ema200, df.close) THEN "LONG"
    ELSE IF FLt(df.close, df.ema200) THEN "SHORT"
    ELSE "None"

\* check_1h_entry returns None.
NoEntry == [ok |-> FALSE]

\* indicator_data of an accepted entry.
IndicatorData(df) ==
    [macd_hist_current  |-> df.macd_hist,
     macd_hist_previous |-> df.macd_hist_prev,
     macd_hist_series   |-> df.macd_hist_series,
     ema20              |-> df.ema20,
     ema50              |-> df.ema50,
     volume_current     |-> df.volume,
     volume_series      |-> df.volume_series,
     candle_body        |-> FAbs(FSub(df.close, df.open)),
     atr_val            |-> df.atr]

\* A fetched 1-hour series is held as its length and the indicator values
\* at the last closed candle (curr) and the one before (prev).
check_1h_entry(symbol, trend_direction, df) ==
    IF ~df.ok \/ df.len < 51 THEN NoEntry
    ELSE IF \E x \in {df.ema20, df.ema50, df.macd_line, df.macd_signal,
                       df.macd_hist, df.atr, df.macd_line_prev,
                       df.macd_signal_prev} : IsNaN(x)
    THEN NoEntry
    ELSE LET long == /\ trend_direction = "LONG"
                     /\ FLt(df.ema50, df.ema20)
                     /\ ~FLt(df.macd_signal_prev, df.macd_line_prev)
                     /\ FLt(df.macd_signal, df.macd_line)
                     /\ FLt(R(0), df.macd_hist)
             short == /\ trend_direction = "SHORT"
                      /\ FLt(df.ema20, df.ema50)
                      /\ ~FLt(df.macd_line_prev, df.macd_signal_prev)
                      /\ FLt(df.macd_line, df.macd_signal)
                      /\ FLt(df.macd_hist, R(0))
         IN  IF long \/ short
             THEN [ok             |-> TRUE,
                   symbol         |-> symbol,
                   signal         |-> trend_direction,
                   price          |-> df.close,
                   atr            |-> df.atr,
                   indicator_data |-> IndicatorData(df)]
             ELSE NoEntry

\* The change over four hours of a fetched 1-hour series of ten candles,
\* held as its length and its closes at iloc[-2] and iloc[-6]; 0.0 when
\* the fetch failed or returned fewer than six candles.
PctChange(df) ==
    IF ~df.ok \/ df.len < 6 THEN R(0)
    ELSE FDiv(FSub(df.last, df.base), df.base)

-----------------------------------------------------------------------------
(* The rows of a fetched series.  A series is a sequence of rows, oldest   *)
(* first; the last row is the candle still forming.  A row holds the       *)
(* candle and the indicator columns pandas_ta appended: EMA, MACD and ATR  *)
(* at a row are computed from that row and the rows before it.             *)

Column(rows, name) == [i \in DOMAIN rows |-> rows[i][name]]

\* series.dropna()
DropNa(series) == SelectSeq(series, LAMBDA x : ~IsNaN(x))

\* series.tail(n)
TailN(series, n) ==
    IF Len(series) > n THEN SubSeq(series, Len(series) - n + 1, Len(series))
    ELSE series

\* check_4h_trend reads the length and, at curr = -2, close and EMA_200.
Frame4h(rows) ==
    [ok     |-> TRUE,
     len    |-> Len(rows),
     close  |-> rows[Len(rows) - 1].close,
     ema200 |-> rows[Len(rows) - 1].ema200]

\* check_1h_entry reads the length, the columns at curr = -2 and prev = -3,
\* and the last twenty values of the histogram and volume columns.
Frame1h(rows) ==
    LET curr == Len(rows) - 1
        prev == Len(rows) - 2
    IN  [ok               |-> TRUE,
         len              |-> Len(rows),
         ema20            |-> rows[curr].ema20,
         ema50            |-> rows[curr].ema50,
         macd_line        |-> rows[curr].macd_line,
         macd_signal      |-> rows[curr].macd_signal,
         macd_hist        |-> rows[curr].macd_hist,
         atr              |-> rows[curr].atr,
         macd_line_prev   |-> rows[prev].macd_line,
         macd_signal_prev |-> rows[prev].macd_signal,
         macd_hist_prev   |-> rows[prev].macd_hist,
         macd_hist_series |-> TailN(DropNa(Column(rows, "macd_hist")), 20),
         close            |-> rows[curr].close,
         open             |-> rows[curr].open,
         volume           |-> rows[curr].volume,
         volume_series    |-> TailN(DropNa(Column(rows, "volume")), 20)]

\* get_btc_pct_change reads the length and the closes at curr = -2 and
\* base_idx = -6.
Frame10(rows) ==
    [ok   |-> TRUE,
     len  |-> Len(rows),
     last |-> IF Len(rows) >= 6 THEN rows[Len(rows) - 1].close ELSE R(0),
     base |-> IF Len(rows) >= 6 THEN rows[Len(rows) - 5].close ELSE R(0)]

\* fetch_5m_candle: ohlcv[-2] of at least two candles, else None.
Frame5m(ohlcv) ==
    IF Len(ohlcv) >= 2
    THEN [ok   |-> TRUE,
          high |-> ohlcv[Len(ohlcv) - 1].high,
          low  |-> ohlcv[Len(ohlcv) - 1].low]
    ELSE [ok |-> FALSE]

\* fetch_1h_macd and _check_macd_exit: of at least thirty candles, the MACD
\* line and signal at iloc[-2] and iloc[-3].
FrameMacd(rows) ==
    IF Len(rows) >= 30
    THEN [ok      |-> TRUE,
          ml_prev |-> rows[Len(rows) - 2].macd_line,
          ms_prev |-> rows[Len(rows) - 2].macd_signal,
          ml_curr |-> rows[Len(rows) - 1].macd_line,
          ms_curr |-> rows[Len(rows) - 1].macd_signal]
    ELSE [ok |-> FALSE]

-----------------------------------------------------------------------------
(* scanner.format_score_display                                            *)

\* _make_bar: the number of filled blocks out of ten.
MakeBar(value) == PyRound(FMul(FDiv(value, R(100)), R(10)))

\* The figures of the text: the composite, the two bars and the relative
\* strength in tenths of a percent.
format_score_display(score_data, btc_relative) ==
    [composite |-> score_data.composite,
     macd_bar  |-> MakeBar(score_data.components.macd_magnitude),
     vol_bar   |-> MakeBar(score_data.components.volume),
     btc_pct   |-> RoundHalfEven(FMul(btc_relative, R(1000)))]

-----------------------------------------------------------------------------
(* scanner.scan_market                                                     *)

\* pairs.txt is held as its lines, a line as its parts.
Whitespace == {" ", "\n"}

RECURSIVE LStrip(_)
LStrip(line) ==
    IF line # <<>> /\ Head(line) \in Whitespace THEN LStrip(Tail(line)) ELSE line

RECURSIVE RStrip(_)
RStrip(line) ==
    IF line # <<>> /\ line[Len(line)] \in Whitespace
    THEN RStrip(SubSeq(line, 1, Len(line) - 1))
    ELSE line

Strip(line) == RStrip(LStrip(line))

\* Every line is a pair, blank or not.
ReadPairsKeepingBlanks(lines) == [i \in DOMAIN lines |-> Strip(lines[i])]

\* [line.strip() for line in f if line.strip()]
RECURSIVE ReadPairs(_)
ReadPairs(lines) ==
    IF lines = <<>> THEN <<>>
    ELSE IF Strip(Head(lines)) # <<>>
         THEN <<Strip(Head(lines))>> \o ReadPairs(Tail(lines))
         ELSE ReadPairs(Tail(lines))

Metadata(pairs_scanned, filtered_count, signals_found) ==
    [pairs_scanned  |-> pairs_scanned,
     filtered_count |-> filtered_count,
     signals_found  |-> signals_found]

\* The result returned when pairs.txt does not exist.
NoPairsResult == [signals |-> <<>>, metadata |-> Metadata(0, 0, 0)]

\* A scan that has not started: the file it will read.
NewScan(pairs_file) ==
    [pc             |-> "start",
     pairs_file     |-> pairs_file,
     symbols        |-> <<>>,
     btc_pct        |-> R(0),
     trend_data     |-> <<>>,
     filtered_pairs |-> <<>>,
     entry_data     |-> <<>>,
     entry_results  |-> <<>>,
     coin_data      |-> <<>>,
     signals        |-> <<>>,
     result         |-> NoPairsResult]

\* Up to the first await: pairs.txt is missing and the zero result is
\* returned, or its pairs are read.
ScanMarketStart ==
    /\ scanner.pc = "start"
    /\ IF ~scanner.pairs_file.exists
       THEN scanner' = [scanner EXCEPT !.pc = "returned", !.result = NoPairsResult]
       ELSE scanner' = [scanner EXCEPT !.pc = "btc",
                           !.symbols = ReadPairs(scanner.pairs_file.lines)]
    /\ UNCHANGED <<state, trade_log, handler, reply, monitor, alerts, filevars>>

\* get_btc_pct_change returns.
ScanMarketBtc(df) ==
    /\ scanner.pc = "btc"
    /\ scanner' = [scanner EXCEPT !.pc = "trend", !.btc_pct = PctChange(df)]
    /\ UNCHANGED <<state, trade_log, handler, reply, monitor, alerts, filevars>>

\* The gather of the 4-hour stage is abandoned when one fetch failed.
TrendResultsAborting(symbols, trend_data) ==
    IF \E i \in DOMAIN symbols : ~trend_data[i].ok
    THEN [i \in DOMAIN symbols |-> "None"]
    ELSE [i \in DOMAIN symbols |-> check_4h_trend(trend_data[i])]

\* trend_results: one check per pair, each on its own fetch.
TrendResults(symbols, trend_data) ==
    [i \in DOMAIN symbols |-> check_4h_trend(trend_data[i])]

\* filtered_pairs: the pairs with a trend, in the order of the universe.
RECURSIVE FilteredPairs(_, _, _)
FilteredPairs(symbols, trend_results, i) ==
    IF i > Len(symbols) THEN <<>>
    ELSE IF trend_results[i] # "None"
         THEN <<[symbol |-> symbols[i], trend |-> trend_results[i]]>>
                  \o FilteredPairs(symbols, trend_results, i + 1)
         ELSE FilteredPairs(symbols, trend_results, i + 1)

\* The 4-hour stage returns.
ScanMarketTrends(trend_data) ==
    /\ scanner.pc = "trend"
    /\ scanner' = [scanner EXCEPT
           !.pc = "entry",
           !.trend_data = trend_data,
           !.filtered_pairs =
               FilteredPairs(scanner.symbols,
                             TrendResults(scanner.symbols, trend_data), 1)]
    /\ UNCHANGED <<state, trade_log, handler, reply, monitor, alerts, filevars>>

\* The 1-hour stage returns: entry_results, one per filtered pair.
ScanMarketEntries(entry_data) ==
    /\ scanner.pc = "entry"
    /\ scanner' = [scanner EXCEPT
           !.pc = "score",
           !.entry_data = entry_data,
           !.entry_results =
               [i \in DOMAIN scanner.filtered_pairs |->
                   check_1h_entry(scanner.filtered_pairs[i].symbol,
                                  scanner.filtered_pairs[i].trend,
                                  entry_data[i])]]
    /\ UNCHANGED <<state, trade_log, handler, reply, monitor, alerts, filevars>>

\* symbols.index(sym), counted from 0.
RECURSIVE IndexOf(_, _, _)
IndexOf(symbols, sym, i) ==
    IF symbols[i] = sym THEN i - 1 ELSE IndexOf(symbols, sym, i + 1)

\* The signal built from the accepted entry res and the fetch coin_df of
\* its 1-hour candles.  btc_relative and score_data are computed once and
\* bound as values.
ScoredSignal(res, symbols, btc_pct, coin_df) ==
    CHOOSE sig \in
        {[symbol        |-> res.symbol,
          signal        |-> res.signal,
          price         |-> res.price,
          atr           |-> res.atr,
          btc_relative  |-> x[1],
          mc_rank       |-> IndexOf(symbols, res.symbol, 1),
          score         |-> x[2].composite,
          score_data    |-> x[2],
          score_display |-> format_score_display(x[2], x[1])] :
            x \in {<<btc_relative,
                     compute_signal_score(res.indicator_data, btc_relative)>> :
                       btc_relative \in {FSub(PctChange(coin_df), btc_pct)}}} : TRUE

\* signals before the sort: the accepted entries, in order.
RECURSIVE Candidates(_, _, _, _, _)
Candidates(entry_results, symbols, btc_pct, coin_data, i) ==
    IF i > Len(entry_results) THEN <<>>
    ELSE IF entry_results[i].ok
         THEN <<ScoredSignal(entry_results[i], symbols, btc_pct, coin_data[i])>>
                  \o Candidates(entry_results, symbols, btc_pct, coin_data, i + 1)
         ELSE Candidates(entry_results, symbols, btc_pct, coin_data, i + 1)

\* key=lambda x: (-x['score'], x['mc_rank']): a sorts before b.
KeyLess(a, b) ==
    \/ a.score > b.score
    \/ a.score = b.score /\ a.mc_rank < b.mc_rank

\* x put into the sorted list after every signal it does not sort before.
RECURSIVE Inserted(_, _)
Inserted(sorted, x) ==
    IF sorted = <<>> THEN <<x>>
    ELSE IF KeyLess(x, Head(sorted)) THEN <<x>> \o sorted
    ELSE <<Head(sorted)>> \o Inserted(Tail(sorted), x)

RECURSIVE SortedFrom(_, _, _)
SortedFrom(signals, i, acc) ==
    IF i > Len(signals) THEN acc
    ELSE SortedFrom(signals, i + 1, Inserted(acc, signals[i]))

\* The signals left in the order the entries were accepted.
Unsorted(signals) == signals

\* signals.sort(...): a stable sort.
Sorted(signals) == SortedFrom(signals, 1, <<>>)

\* signals[:10]
Truncated(signals) ==
    IF Len(signals) > 10 THEN SubSeq(signals, 1, 10) ELSE signals

\* The relative strength of each accepted entry is fetched and scored, the
\* signals are sorted and the first ten returned with the metadata.
ScanMarketScore(coin_data) ==
    /\ scanner.pc = "score"
    /\ \E signals \in {Sorted(Candidates(scanner.entry_results, scanner.symbols,
                                          scanner.btc_pct, coin_data, 1))} :
           scanner' = [scanner EXCEPT
               !.pc = "returned",
               !.coin_data = coin_data,
               !.signals = signals,
               !.result = [signals  |-> Truncated(signals),
                           metadata |-> Metadata(Len(scanner.symbols),
                                                 Len(scanner.filtered_pairs),
                                                 Len(signals))]]
    /\ UNCHANGED <<state, trade_log, handler, reply, monitor, alerts, filevars>>

-----------------------------------------------------------------------------
(* Two runs on the rows of fetched series: one pair taken through the      *)
(* stages of scan_market, and the positions through _check_position.       *)

\* The stages of scan_market for one pair, on the series of a run: the
\* benchmark change, the regime, the entry and the scored signal.
EvaluateSeries(symbol, run) ==
    LET btc_pct == PctChange(Frame10(run.btc))
        trend == check_4h_trend(Frame4h(run.h4))
        res == IF trend = "None" THEN NoEntry
               ELSE check_1h_entry(symbol, trend, Frame1h(run.h1))
    IN  [btc_pct |-> btc_pct,
         trend   |-> trend,
         entry   |-> res,
         signals |-> IF res.ok
                     THEN <<ScoredSignal(res, <<symbol>>, btc_pct,
                                         Frame10(run.coin))>>
                     ELSE <<>>]

\* The requests of a monitor cycle on the series of a run, one ticker for
\* every symbol.
CheckSeries(positions, ticker, run) ==
    Alerts(positions,
           [s \in Symbols |-> ticker],
           [s \in Symbols |-> Frame5m(run.m5)],
           [s \in Symbols |-> FrameMacd(run.macd)])

\* Two runs that wait for their series to be evaluated.
NewRuns(symbol, runs) ==
    [pc       |-> "candles",
     symbol   |-> symbol,
     runs     |-> runs,
     results  |-> <<>>,
     requests |-> <<>>]

ScanSeries ==
    /\ scanner.pc = "candles"
    /\ scanner' = [scanner EXCEPT
           !.pc = "scanned",
           !.results = [i \in DOMAIN scanner.runs |->
                           EvaluateSeries(scanner.symbol, scanner.runs[i])]]
    /\ UNCHANGED <<state, trade_log, handler, reply, monitor, alerts, filevars>>

MonitorSeries(ticker) ==
    /\ scanner.pc = "scanned"
    /\ scanner' = [scanner EXCEPT
           !.pc = "checked",
           !.requests = [i \in DOMAIN scanner.runs |->
                            CheckSeries(state.active_positions, ticker,
                                        scanner.runs[i])]]
    /\ UNCHANGED <<state, trade_log, handler, reply, monitor, alerts, filevars>>

\* One call of check_1h_entry for a pair of the entry stage: the regime of
\* the pair and the 1-hour series the fetch returned.
NewEntry(symbol, trend_direction, rows) ==
    [pc              |-> "entry_fetch",
     symbol          |-> symbol,
     trend_direction |-> trend_direction,
     rows            |-> rows,
     result          |-> NoEntry]

EntryChecked ==
    /\ scanner.pc = "entry_fetch"
    /\ scanner' = [scanner EXCEPT
           !.pc = "entry_done",
           !.result = check_1h_entry(scanner.symbol, scanner.trend_direction,
                                     Frame1h(scanner.rows))]
    /\ UNCHANGED <<state, trade_log, handler, reply, monitor, alerts, filevars>>

-----------------------------------------------------------------------------
(* Inputs of the actions.                                                  *)

\* What the exchange can return for the symbols asked: tickers and 5-minute
\* candles for the symbols of open positions, 1-hour MACD for the symbols of
\* positions whose TP1 was hit.
MarketData(values, none, asked) ==
    {[s \in Symbols |-> IF s \in asked THEN g[s] ELSE none] : g \in [asked -> values]}

-----------------------------------------------------------------------------

\* The part of the state space explored: trade logs of at most maxlog
\* records and denial counters of at most MaxDenials.
Explored(maxlog) ==
    /\ Len(trade_log) <= maxlog
    /\ \A i \in DOMAIN state.active_positions :
          state.active_positions[i].denial_count <= MaxDenials

OpenStart(tokens) ==
    \E tok \in tokens, atr_val \in TokenAtrs, path \in Paths :
        HandleOpenStart(tok[1], tok[2], atr_val, path)
OpenFinish == \E price \in OpenPrices : HandleOpenFinish(price)
OpenFetchFails == HandleOpenFetchFails
SlClosedPress == \E symbol \in Symbols : HandleSlClosed(symbol)
SlOpenPress == \E symbol \in Symbols : HandleSlOpen(symbol)
HalfClosePress == \E symbol \in Symbols : HandleHalfClose(symbol)
MonitorFetched ==
    /\ monitor.pc = "fetch"
    /\ LET positions == monitor.loaded.active_positions
       IN  \E tickers \in MarketData(TickerValues, NoTicker, PositionSymbols(positions)),
              candles_5m \in MarketData(CandleValues, NoCandle, PositionSymbols(positions)),
              macd_dfs \in MarketData(MacdValues, NoMacd, Tp1HitSymbols(positions)) :
               MonitorRun(tickers, candles_5m, macd_dfs)

\* The hourly job and /scan: scan_market returns any set of signals.
ScannerScanned == \E signals \in SignalSets : ScannerRun(signals)
ScanScanned == \E signals \in SignalSets : ScanFinish(signals)

\* The ignore token of an alert: ignore_{symbol} from the hourly job
\* (bot.py), ignore_{symbol}_{side} from /scan, split at "_".
IgnoreToken(a) ==
    IF a[2] = "scanner" THEN <<"ignore", a[1][1]>> ELSE <<"ignore", a[1][1], a[1][2]>>

\* edit_message_text replaces the alert pressed: its buttons are gone.
Answered(a) == [out |-> [alerts.out EXCEPT ![a] = @ - 1], pressed |-> {}]

\* The user presses Opened on an alert that still carries its buttons; the
\* alert is replaced when the handler rejects or confirms the open, and
\* stays when fetch_ticker fails.
AlertOpenStart ==
    \E a \in AlertKinds, atr_val \in TokenAtrs, path \in Paths :
        /\ alerts.out[a] > 0
        /\ HandleOpenStart(a[1][2], a[1][1], atr_val, path)
        /\ alerts' = IF PositionsFull(state.active_positions)
                     THEN Answered(a)
                     ELSE [alerts EXCEPT !.pressed = {a}]
        /\ UNCHANGED <<scanner, filevars>>
AlertOpenFinish ==
    /\ OpenFinish
    /\ \E a \in alerts.pressed : alerts' = Answered(a)
    /\ UNCHANGED <<scanner, filevars>>
AlertOpenFetchFails ==
    /\ OpenFetchFails
    /\ alerts' = [alerts EXCEPT !.pressed = {}]
    /\ UNCHANGED <<scanner, filevars>>

\* The user presses Ignore on an alert that still carries its buttons.
AlertIgnore ==
    \E a \in AlertKinds :
        /\ alerts.out[a] > 0
        /\ HandleIgnore(IgnoreToken(a))
        /\ alerts' = Answered(a)

\* log_trade raises in a handler.
OpenLogFails == \E price \in OpenPrices : HandleOpenLogFails(price)
SlClosedLogFails ==
    \E symbol \in Symbols, n \in 1..MAX_POSITIONS : HandleSlClosedLogFails(symbol, n)
HalfCloseLogFails ==
    \E symbol \in Symbols, n \in 1..MAX_POSITIONS : HandleHalfCloseLogFails(symbol, n)

-----------------------------------------------------------------------------
(* Portfolios the ledger reaches by open confirmations alone: the starting *)
(* points of the specifications that explore the monitor and the capacity  *)
(* limits.                                                                 *)

RECURSIVE OpenedAll(_)
OpenedAll(tokens) ==
    IF tokens = <<>>
    THEN [st |-> DefaultState, log |-> <<>>, reply |-> NoReply]
    ELSE LET before == OpenedAll(SubSeq(tokens, 1, Len(tokens) - 1))
             tok == tokens[Len(tokens)]
             price == R(1000)
             atr_val == R(9)
         IN  [st  |-> OpenedState(before.st, tok[1], tok[2], atr_val, "TA", price),
              log |-> Append(before.log,
                        LogRecord("OPEN", tok[2], tok[1], price,
                                  StopLoss(tok[1], price, InitialRisk(atr_val, price)),
                                  NoPnl)),
              reply |-> [kind |-> "opened", symbol |-> tok[2]]]

InitOpened(seeds) ==
    /\ \E tokens \in seeds :
          LET o == OpenedAll(tokens)
          IN  state = o.st /\ trade_log = o.log /\ reply = o.reply
    /\ handler = IdleHandler
    /\ monitor = IdleMonitor
    /\ scanner = IdleScanner
    /\ alerts = NoAlerts
    /\ files = NoFiles
    /\ proc = IdleProc

-----------------------------------------------------------------------------
(* The portfolio states as the dicts the program holds and saves.          *)

\* sig_key = f"{symbol}_{side}"
SigKey(k) ==
    IF k[1] = "BTC/USDT"
    THEN (IF k[2] = "LONG" THEN "BTC/USDT_LONG" ELSE "BTC/USDT_SHORT")
    ELSE (IF k[2] = "LONG" THEN "ETH/USDT_LONG" ELSE "ETH/USDT_SHORT")

\* The keys of sent_signals in the order of their insertion, each with the
\* ISO time it was sent at.
RECURSIVE SentPairs(_)
SentPairs(keys) ==
    IF keys = {} THEN <<>>
    ELSE LET k == CHOOSE x \in keys : TRUE
         IN  <<<<SigKey(k), PyStr("2026-01-01T00:00:00")>>>> \o SentPairs(keys \ {k})

\* The dict _handle_open appends for a position (its timestamp left out).
PyOfPosition(p) ==
    PyDict(<< <<"symbol", PyStr(p.symbol)>>,
              <<"side", PyStr(p.side)>>,
              <<"path", PyStr(p.path)>>,
              <<"entry_price", PyFloat(p.entry_price)>>,
              <<"allocated_capital", PyFloat(p.allocated_capital)>>,
              <<"initial_risk", PyFloat(p.initial_risk)>>,
              <<"current_sl", PyFloat(p.current_sl)>>,
              <<"tp1_price", PyFloat(p.tp1_price)>>,
              <<"tp1_hit", PyBool(p.tp1_hit)>>,
              <<"denial_count", PyInt(p.denial_count)>> >>)

\* The state dict: the keys of default_state, and sent_signals once a scan
\* has set it.
PyOfState(st) ==
    PyDict(<< <<"portfolio_balance", PyFloat(st.portfolio_balance)>>,
              <<"available_cash", PyFloat(st.available_cash)>>,
              <<"tied_capital", PyFloat(st.tied_capital)>>,
              <<"bot_status", PyStr(st.bot_status)>>,
              <<"active_positions",
                PyList([i \in DOMAIN st.active_positions |->
                           PyOfPosition(st.active_positions[i])])>>,
              <<"sent_signals", PyDict(SentPairs(st.sent_signals))>> >>)

\* States the handlers and the scans save: no position and one alert sent,
\* one position open, one position closed at a loss.
PortfolioStates ==
    {PyOfState([DefaultState EXCEPT !.sent_signals = {<<"BTC/USDT", "LONG">>}]),
     PyOfState(OpenedAll(<<<<"LONG", "BTC/USDT">>>>).st),
     PyOfState(SlClosed(OpenedAll(<<<<"SHORT", "ETH/USDT">>>>).st, "ETH/USDT").st)}

\* A handler changes the loaded state into one of the portfolio states.
Mutated == \E s \in PortfolioStates : Mutate(s)

\* The entries logged: an OPEN and the CLOSE of the same position.
LogEntries ==
    {LogEntry("OPEN", "BTC/USDT", "LONG", R(1000), R(982), PyNone),
     LogEntry("CLOSE", "BTC/USDT", "LONG", R(1000), R(982), PyFloat(R(-100)))}

LogTraded ==
    \E entry \in LogEntries :
        /\ LogTradeRead(entry)
        /\ proc'.pc = "logread" => Len(proc'.mem.v) <= MaxLogFile

\* A trade log written by hand or by another program: it does not decode.
GarbledLog == [exists |-> TRUE,
               text |-> <<Tok("not"), Tok("json"), Tok("{"), Tok("{"), Tok("{")>>]

-----------------------------------------------------------------------------
(* Specifications.                                                         *)

\* The button handler alone, from the default state: user confirmations in
\* any order.
NextLedger ==
    \/ OpenStart(OpenTokens) /\ Explored(MaxLedgerLog)' /\ UNCHANGED <<scanvars, filevars>>
    \/ OpenFinish /\ Explored(MaxLedgerLog)' /\ UNCHANGED <<scanvars, filevars>>
    \/ OpenFetchFails /\ Explored(MaxLedgerLog)' /\ UNCHANGED <<scanvars, filevars>>
    \/ SlClosedPress /\ Explored(MaxLedgerLog)' /\ UNCHANGED <<scanvars, filevars>>
    \/ SlOpenPress /\ Explored(MaxLedgerLog)' /\ UNCHANGED <<scanvars, filevars>>
    \/ HalfClosePress /\ Explored(MaxLedgerLog)' /\ UNCHANGED <<scanvars, filevars>>

SpecLedger == Init /\ [][NextLedger]_vars

\* The button handler alone, from a portfolio of four open positions: the
\* capacity limits of _handle_open.
CapacitySeeds ==
    {<<<<"LONG", "BTC/USDT">>, <<"SHORT", "ETH/USDT">>,
       <<"SHORT", "ETH/USDT">>, <<"SHORT", "ETH/USDT">>>>}
CapacityTokens == {<<"SHORT", "ETH/USDT">>}

InitCapacity == InitOpened(CapacitySeeds)

NextCapacity ==
    \/ OpenStart(CapacityTokens) /\ Explored(MaxCapacityLog)' /\ UNCHANGED <<scanvars, filevars>>
    \/ OpenFinish /\ Explored(MaxCapacityLog)' /\ UNCHANGED <<scanvars, filevars>>
    \/ OpenFetchFails /\ Explored(MaxCapacityLog)' /\ UNCHANGED <<scanvars, filevars>>
    \/ SlClosedPress /\ Explored(MaxCapacityLog)' /\ UNCHANGED <<scanvars, filevars>>
    \/ SlOpenPress /\ Explored(MaxCapacityLog)' /\ UNCHANGED <<scanvars, filevars>>
    \/ HalfClosePress /\ Explored(MaxCapacityLog)' /\ UNCHANGED <<scanvars, filevars>>

SpecCapacity == InitCapacity /\ [][NextCapacity]_vars

\* A cycle in a calm market: every ticker at the entry price, no candle.
MonitorFetchedCalm ==
    MonitorRun([s \in Symbols |-> [ok |-> TRUE, last |-> R(1000)]],
               [s \in Symbols |-> NoCandle],
               [s \in Symbols |-> NoMacd])

\* An hourly scan that finds no signal.
ScannerScannedNothing == ScannerRun({})

\* The portfolio of four positions after the three ETH/USDT positions were
\* half-closed at TP1: the cash released pays for more than one further
\* position, so that only the count of positions limits the opens.
InitSlots ==
    /\ LET o == OpenedAll(CHOOSE tokens \in CapacitySeeds : TRUE)
           r == HalfClosed(o.st, "ETH/USDT")
       IN  /\ state = r.st
           /\ trade_log = o.log \o r.log
           /\ reply = [kind |-> "half_closed", symbol |-> "ETH/USDT"]
    /\ handler = IdleHandler
    /\ monitor = IdleMonitor
    /\ scanner = IdleScanner
    /\ alerts = NoAlerts
    /\ files = NoFiles
    /\ proc = IdleProc

\* The two jobs run beside the handlers: an open whose ticker fetch is
\* pending while the monitor or the hourly scan loads and saves, and a
\* close that frees a slot while a cycle holds an older state.
NextSlots ==
    \/ OpenStart(CapacityTokens) /\ Explored(MaxSlotsLog)' /\ UNCHANGED <<scanvars, filevars>>
    \/ OpenFinish /\ Explored(MaxSlotsLog)' /\ UNCHANGED <<scanvars, filevars>>
    \/ OpenFetchFails /\ Explored(MaxSlotsLog)' /\ UNCHANGED <<scanvars, filevars>>
    \/ SlClosedPress /\ Explored(MaxSlotsLog)' /\ UNCHANGED <<scanvars, filevars>>
    \/ MonitorLoad /\ Explored(MaxSlotsLog)' /\ UNCHANGED <<scanvars, filevars>>
    \/ MonitorFetchedCalm /\ Explored(MaxSlotsLog)' /\ UNCHANGED <<scanvars, filevars>>
    \/ ScannerLoad /\ Explored(MaxSlotsLog)'
    \/ ScannerScannedNothing /\ Explored(MaxSlotsLog)'

SpecSlots == InitSlots /\ [][NextSlots]_vars

\* The position monitor interleaved with the confirmations its requests
\* offer (closed, still open, half-closed), from portfolios of one or two
\* open positions.
MonitorSeeds ==
    {<<<<"LONG", "BTC/USDT">>>>,
     <<<<"SHORT", "BTC/USDT">>>>,
     <<<<"LONG", "BTC/USDT">>, <<"SHORT", "BTC/USDT">>>>}

InitMonitor == InitOpened(MonitorSeeds)

NextMonitor ==
    \/ SlClosedPress /\ Explored(MaxMonitorLog)' /\ UNCHANGED <<scanvars, filevars>>
    \/ SlOpenPress /\ Explored(MaxMonitorLog)' /\ UNCHANGED <<scanvars, filevars>>
    \/ HalfClosePress /\ Explored(MaxMonitorLog)' /\ UNCHANGED <<scanvars, filevars>>
    \/ MonitorLoad /\ Explored(MaxMonitorLog)' /\ UNCHANGED <<scanvars, filevars>>
    \/ MonitorFetched /\ Explored(MaxMonitorLog)' /\ UNCHANGED <<scanvars, filevars>>

SpecMonitor == InitMonitor /\ [][NextMonitor]_vars

\* The position monitor over a portfolio of two positions of different
\* symbols, with every outcome of the three fetches of a cycle: a missing
\* candle, missing MACD candles or a missing ticker for either symbol, and
\* a fetch_tickers call that raises.  The BTC position starts either as
\* opened or as half-closed at TP1, so that its 1-hour candles are fetched.
FetchSeed == <<<<"LONG", "BTC/USDT">>, <<"SHORT", "ETH/USDT">>>>

InitFetches ==
    /\ \E halved \in BOOLEAN :
          LET o == OpenedAll(FetchSeed)
              r == HalfClosed(o.st, "BTC/USDT")
          IN  IF halved
              THEN /\ state = r.st
                   /\ trade_log = o.log \o r.log
                   /\ reply = [kind |-> "half_closed", symbol |-> "BTC/USDT"]
              ELSE /\ state = o.st
                   /\ trade_log = o.log
                   /\ reply = o.reply
    /\ handler = IdleHandler
    /\ monitor = IdleMonitor
    /\ scanner = IdleScanner
    /\ alerts = NoAlerts
    /\ files = NoFiles
    /\ proc = IdleProc

NextFetches ==
    \/ SlOpenPress /\ Explored(MaxMonitorLog)' /\ UNCHANGED <<scanvars, filevars>>
    \/ MonitorLoad /\ Explored(MaxMonitorLog)' /\ UNCHANGED <<scanvars, filevars>>
    \/ MonitorFetched /\ Explored(MaxMonitorLog)' /\ UNCHANGED <<scanvars, filevars>>
    \/ MonitorTickersFail /\ Explored(MaxMonitorLog)' /\ UNCHANGED <<scanvars, filevars>>

SpecFetches == InitFetches /\ [][NextFetches]_vars

\* Alerts and the opens confirmed from them, over signals and ticker
\* prices that cover the scenario 65000 / 1500, an ATR of zero, a negative
\* ATR and an ATR that its token prints as 0.0000.
\* <<symbol, side, price, atr, path>> of the signal scan_market returns.
LevelInputs ==
    {<<R(65000), R(1500)>>, <<R(3000), R(100)>>, <<R(100), R(0)>>,
     <<R(1000), R(-1)>>, <<R(1000), <<3, 100000>>>>, <<R(1000), <<9, 2>>>>}
LevelSignals ==
    {<<"BTC/USDT", side, x[1], x[2], "TA">> : side \in {"LONG", "SHORT"},
                                               x \in LevelInputs}
LevelPrices == {R(65000), R(1000), R(100)}

ScanAlerted == \E sig \in LevelSignals : ScanAlert(sig)
AlertOpenPriced == \E price \in LevelPrices : HandleOpenFinish(price)

NextLevels ==
    \/ ScanAlerted /\ Explored(MaxLevelLog)'
    \/ HandleAlertOpen /\ Explored(MaxLevelLog)' /\ UNCHANGED <<scanvars, filevars>>
    \/ AlertOpenPriced /\ Explored(MaxLevelLog)' /\ UNCHANGED <<scanvars, filevars>>

SpecLevels == Init /\ [][NextLevels]_vars

\* The signal scans and the answers to their alerts, from the default
\* state: the hourly job, /scan, and the Opened and Ignore buttons.
RECURSIVE AlertsOut(_, _)
AlertsOut(out, kinds) ==
    IF kinds = {} THEN 0
    ELSE LET a == CHOOSE x \in kinds : TRUE
         IN  out[a] + AlertsOut(out, kinds \ {a})

ExploredSignals ==
    /\ Len(trade_log) <= MaxSignalLog
    /\ AlertsOut(alerts.out, AlertKinds) <= MaxAlerts

NextSignals ==
    \/ ScannerLoad /\ ExploredSignals'
    \/ ScannerScanned /\ ExploredSignals'
    \/ ScanStart /\ ExploredSignals'
    \/ ScanScanned /\ ExploredSignals'
    \/ AlertOpenStart /\ ExploredSignals'
    \/ AlertOpenFinish /\ ExploredSignals'
    \/ AlertOpenFetchFails /\ ExploredSignals'
    \/ AlertIgnore /\ ExploredSignals'

SpecSignals == Init /\ [][NextSignals]_vars

\* The three evaluation cycles side by side, from a portfolio of one open
\* position: the hourly job, /scan and the position monitor.
CycleSeeds == {<<<<"LONG", "BTC/USDT">>>>}

InitCycles == InitOpened(CycleSeeds)

NextCycles ==
    \/ ScannerLoad /\ ExploredSignals'
    \/ ScannerScanned /\ ExploredSignals'
    \/ ScanStart /\ ExploredSignals'
    \/ ScanScanned /\ ExploredSignals'
    \/ MonitorLoad /\ UNCHANGED <<scanvars, filevars>> /\ ExploredSignals'
    \/ MonitorFetched /\ UNCHANGED <<scanvars, filevars>> /\ ExploredSignals'

SpecCycles == InitCycles /\ [][NextCycles]_vars

\* The operating mode: /afk and /ready beside the hourly job, /scan and
\* the position monitor, with or without an open position.
AfkFinish ==
    /\ handler.pc = "afk"
    /\ \E tickers \in MarketData(TickerValues, NoTicker,
                                 PositionSymbols(handler.state.active_positions)) :
           HandleAfkFinish(tickers)

\* A cycle of the monitor with the ticker at the entry price or at the stop
\* of a LONG position, and no candle.
MonitorFetchedPriced ==
    \E last \in {R(1000), R(982)} :
        MonitorRun([s \in Symbols |-> [ok |-> TRUE, last |-> last]],
                   [s \in Symbols |-> NoCandle],
                   [s \in Symbols |-> NoMacd])

ModeSeeds == {<<>>, <<<<"LONG", "BTC/USDT">>>>}

InitModes == InitOpened(ModeSeeds)

NextModes ==
    \/ HandleAfkStart /\ ExploredSignals'
    \/ AfkFinish /\ ExploredSignals'
    \/ HandleAfkFetchFails /\ ExploredSignals'
    \/ HandleReady /\ ExploredSignals'
    \/ ScannerLoad /\ ExploredSignals'
    \/ ScannerScanned /\ ExploredSignals'
    \/ ScanStart /\ ExploredSignals'
    \/ ScanScanned /\ ExploredSignals'
    \/ MonitorLoad /\ UNCHANGED <<scanvars, filevars>> /\ ExploredSignals'
    \/ MonitorFetchedPriced /\ UNCHANGED <<scanvars, filevars>> /\ ExploredSignals'

SpecModes == InitModes /\ [][NextModes]_vars

\* Opens that answer alerts only: the hourly job, the Opened button of an
\* alert that carries its buttons, and the close of a symbol.
ExploredReopen ==
    /\ Len(state.active_positions) <= MaxReopenPositions
    /\ Len(trade_log) <= 2 * MaxReopenPositions
    /\ AlertsOut(alerts.out, AlertKinds) <= MaxAlerts

\* scan_market returns nothing or the one signal that stays detected.
ScannerScannedSame ==
    \E signals \in {{}, {<<"BTC/USDT", "LONG">>}} : ScannerRun(signals)

NextReopen ==
    \/ ScannerLoad /\ ExploredReopen'
    \/ ScannerScannedSame /\ ExploredReopen'
    \/ AlertOpenStart /\ ExploredReopen'
    \/ AlertOpenFinish /\ ExploredReopen'
    \/ AlertOpenFetchFails /\ ExploredReopen'
    \/ SlClosedPress /\ UNCHANGED <<scanvars, filevars>> /\ ExploredReopen'

SpecReopen == Init /\ [][NextReopen]_vars

\* state.json and its temporary file under loads, saves, crashes and
\* restarts, from the first start of the bot.
NextPersistence ==
    \/ LoadState
    \/ Mutated
    \/ SaveOpen
    \/ SaveWrite
    \/ SaveReplace
    \/ Crash
    \/ Restart

SpecPersistence == Init /\ [][NextPersistence]_vars

\* The button handler with a ticker fetch and a trade log append that can
\* fail, from the default state.
ExploredJournal ==
    /\ Explored(MaxJournalLog)
    /\ Len(state.active_positions) <= MaxJournalPositions

NextJournal ==
    \/ OpenStart(OpenTokens) /\ ExploredJournal' /\ UNCHANGED <<scanvars, filevars>>
    \/ OpenFinish /\ ExploredJournal' /\ UNCHANGED <<scanvars, filevars>>
    \/ OpenFetchFails /\ ExploredJournal' /\ UNCHANGED <<scanvars, filevars>>
    \/ OpenLogFails /\ ExploredJournal' /\ UNCHANGED <<scanvars, filevars>>
    \/ SlClosedPress /\ ExploredJournal' /\ UNCHANGED <<scanvars, filevars>>
    \/ SlClosedLogFails /\ ExploredJournal' /\ UNCHANGED <<scanvars, filevars>>
    \/ HalfClosePress /\ ExploredJournal' /\ UNCHANGED <<scanvars, filevars>>
    \/ HalfCloseLogFails /\ ExploredJournal' /\ UNCHANGED <<scanvars, filevars>>

SpecJournal == Init /\ [][NextJournal]_vars

\* trade_log.json under appends, crashes and restarts, beside a state.json
\* that holds the default state; the log starts absent or garbled.
InitTradeLog ==
    /\ state = DefaultState
    /\ trade_log = <<>>
    /\ handler = IdleHandler
    /\ reply = NoReply
    /\ monitor = IdleMonitor
    /\ scanner = IdleScanner
    /\ alerts = NoAlerts
    /\ \E f \in {Absent, GarbledLog} :
          files = [NoFiles EXCEPT
                      ![STATE_FILE] = [exists |-> TRUE, text |-> JsonDump(default_state)],
                      ![TRADE_LOG_FILE] = f]
    /\ proc = [IdleProc EXCEPT !.saved = default_state]

NextTradeLog ==
    \/ LogTraded
    \/ LogTradeOpen
    \/ LogTradeWrite
    \/ LogTradeReturn
    \/ Crash
    \/ Restart

SpecTradeLog == InitTradeLog /\ [][NextTradeLog]_vars

\* The scorer on indicator snapshots: full ones whose values cover zero,
\* negative and NaN figures, series that are empty, of one element, all
\* zero or mixed, and dicts with keys missing.
HistCurrents == {R(0), <<1, 2>>, R(-3), NaN}
HistPrevious == {R(0), <<3, 10>>, R(-1)}
HistSeries == {<<>>, <<R(1)>>, <<R(0), R(0)>>, <<<<1, 10>>, <<-1, 2>>>>}
\* <<ema20, ema50>>
EmaPairs == {<<R(0), R(0)>>, <<R(100), R(100)>>, <<R(105), R(100)>>, <<R(98), R(100)>>}
\* <<volume_current, volume_series>>
VolumePairs ==
    {<<R(0), <<R(0), R(0)>>>>, <<R(1500), <<R(1000), R(1000)>>>>,
     <<R(300), <<R(1000), R(1000)>>>>, <<R(1500), <<>>>>,
     <<R(5000), <<R(500), R(1500)>>>>}
\* <<candle_body, atr_val>>
BodyPairs == {<<R(0), R(0)>>, <<R(2), R(3)>>, <<R(6), R(3)>>, <<<<1, 10>>, R(3)>>}
RelativeStrengths ==
    {<<-1, 10>>, <<-1, 20>>, R(0), <<1, 50>>, <<1, 20>>, <<1, 10>>, NaN}

FullSnapshots ==
    {[macd_hist_current  |-> hc,
      macd_hist_previous |-> hp,
      macd_hist_series   |-> hs,
      ema20              |-> e[1],
      ema50              |-> e[2],
      volume_current     |-> v[1],
      volume_series      |-> v[2],
      candle_body        |-> b[1],
      atr_val            |-> b[2]] :
        hc \in HistCurrents, hp \in HistPrevious, hs \in HistSeries,
        e \in EmaPairs, v \in VolumePairs, b \in BodyPairs}

\* Snapshots with keys missing, down to the empty dict.
PartialSnapshots ==
    {[k \in K |-> R(2)] : K \in SUBSET {"macd_hist_current", "ema50", "atr_val"}}

InitScore ==
    /\ state = DefaultState
    /\ trade_log = <<>>
    /\ handler = IdleHandler
    /\ reply = NoReply
    /\ monitor = IdleMonitor
    /\ \E indicator_data \in FullSnapshots \cup PartialSnapshots,
          rs \in RelativeStrengths :
          scanner = [pc |-> "score", indicator_data |-> indicator_data,
                     btc_relative_strength |-> rs]
    /\ alerts = NoAlerts
    /\ files = NoFiles
    /\ proc = IdleProc

NextScore == ScoreSignal

SpecScore == InitScore /\ [][NextScore]_vars

\* scan_market over pair files that are missing, empty, blank, of two pairs
\* (with a blank line and padding, or the same pair twice) and of eleven
\* pairs.  For a universe of at most ExhaustivePairs pairs every fetch of
\* every stage can fail, come short or return any of the rows below; for
\* the universe of eleven pairs every pair has a LONG regime and an accepted
\* entry with one of two snapshots, so that more than ten candidates with
\* equal and different scores are ranked.
PairLine(symbol) == <<symbol, "\n">>

SmallPairs == <<PairLine("BTC/USDT"), <<"\n">>, <<" ", "ETH/USDT">>>>
TwicePairs == <<PairLine("BTC/USDT"), PairLine("BTC/USDT")>>
BlankPairs == <<<<"\n">>, <<" ", "\n">>>>
LargePairs ==
    <<PairLine("COIN0/USDT"), PairLine("COIN1/USDT"), PairLine("COIN2/USDT"),
      PairLine("COIN3/USDT"), PairLine("COIN4/USDT"), PairLine("COIN5/USDT"),
      PairLine("COIN6/USDT"), PairLine("COIN7/USDT"), PairLine("COIN8/USDT"),
      PairLine("COIN9/USDT"), PairLine("COIN10/USDT")>>

PairsFiles ==
    {[exists |-> FALSE, lines |-> <<>>]}
        \cup {[exists |-> TRUE, lines |-> lines] :
                 lines \in {<<>>, BlankPairs, SmallPairs, TwicePairs, LargePairs}}

\* Ten 1-hour candles: the closes at iloc[-2] and iloc[-6].
Candles10(len, last, base) == [ok |-> TRUE, len |-> len, last |-> last, base |-> base]

BtcFetches ==
    {FetchFailed, Candles10(5, R(105), R(100)), Candles10(10, R(105), R(100))}
LargeBtcFetches == {Candles10(10, R(105), R(100))}
CoinFetches == {FetchFailed, Candles10(10, R(102), R(100))}
LargeCoinFetches == {Candles10(10, R(102), R(100))}

\* 4-hour candles: their number, the last closed close and its EMA-200.
Candles4h(len, close, ema200) ==
    [ok |-> TRUE, len |-> len, close |-> close, ema200 |-> ema200]

TrendFetches ==
    {FetchFailed,
     Candles4h(200, R(110), R(100)),
     Candles4h(201, R(110), NaN),
     Candles4h(201, R(100), R(100)),
     Candles4h(210, R(110), R(100)),
     Candles4h(201, R(90), R(100))}
LargeTrendFetches == {Candles4h(210, R(110), R(100))}

\* 1-hour candles with a bullish cross above aligned averages.
LongStrong ==
    [ok |-> TRUE, len |-> 100,
     ema20 |-> R(105), ema50 |-> R(100),
     macd_line_prev |-> R(-1), macd_signal_prev |-> R(0),
     macd_line |-> R(1), macd_signal |-> <<1, 2>>,
     macd_hist |-> <<1, 2>>, macd_hist_prev |-> R(-1),
     macd_hist_series |-> <<R(-1), <<1, 2>>>>,
     atr |-> R(3), close |-> R(102), open |-> R(100),
     volume |-> R(1500), volume_series |-> <<R(1000), R(1000)>>]

\* The same cross on weaker figures.
LongWeak ==
    [LongStrong EXCEPT !.ema20 = R(101), !.macd_signal = <<9, 10>>,
                       !.macd_hist = <<1, 10>>,
                       !.macd_hist_series = <<R(-1), <<1, 10>>>>,
                       !.close = <<1001, 10>>, !.volume = R(300)]

\* A bearish cross below aligned averages.
ShortStrong ==
    [LongStrong EXCEPT !.ema20 = R(95),
                       !.macd_line_prev = R(1), !.macd_line = R(-1),
                       !.macd_signal = <<-1, 2>>, !.macd_hist = <<-1, 2>>,
                       !.macd_hist_prev = R(1),
                       !.macd_hist_series = <<R(1), <<-1, 2>>>>,
                       !.close = R(98)]

EntryFetches ==
    {FetchFailed,
     [LongStrong EXCEPT !.len = 50],
     [LongStrong EXCEPT !.atr = NaN],
     [LongStrong EXCEPT !.macd_line_prev = R(1)],
     LongStrong, LongWeak, ShortStrong}
LargeEntryFetches == {LongStrong, LongWeak}

\* The results of n fetches.
Fetches(n, small, large) ==
    IF n <= ExhaustivePairs THEN [1..n -> small] ELSE [1..n -> large]

ScanMarketFetchedBtc ==
    \E df \in IF Len(scanner.symbols) <= ExhaustivePairs
               THEN BtcFetches ELSE LargeBtcFetches :
        ScanMarketBtc(df)
ScanMarketTrended ==
    \E trend_data \in Fetches(Len(scanner.symbols), TrendFetches, LargeTrendFetches) :
        ScanMarketTrends(trend_data)
ScanMarketEntered ==
    \E entry_data \in Fetches(Len(scanner.filtered_pairs), EntryFetches,
                               LargeEntryFetches) :
        ScanMarketEntries(entry_data)
\* The 1-hour candles of a pair are fetched again only when its entry was
\* accepted.
ScanMarketScored ==
    \E coin_data \in Fetches(Len(scanner.entry_results), CoinFetches,
                              LargeCoinFetches) :
        /\ \A i \in DOMAIN coin_data :
              ~scanner.entry_results[i].ok => coin_data[i] = FetchFailed
        /\ ScanMarketScore(coin_data)

InitScan ==
    /\ state = DefaultState
    /\ trade_log = <<>>
    /\ handler = IdleHandler
    /\ reply = NoReply
    /\ monitor = IdleMonitor
    /\ \E pairs_file \in PairsFiles : scanner = NewScan(pairs_file)
    /\ alerts = NoAlerts
    /\ files = NoFiles
    /\ proc = IdleProc

NextScan ==
    \/ ScanMarketStart
    \/ ScanMarketFetchedBtc
    \/ ScanMarketTrended
    \/ ScanMarketEntered
    \/ ScanMarketScored

SpecScan == InitScan /\ [][NextScan]_vars

\* Series whose rows are all closed candles but the last.  The rows before
\* the last two closed ones are quiet; the columns of an indicator hold NaN
\* until its window is full.
Row4h(close, ema200) == [close |-> close, ema200 |-> ema200]

Rows4h(len, closed, last) ==
    [i \in 1..len |->
        IF i = len THEN last
        ELSE IF i = len - 1 THEN closed
        ELSE Row4h(R(100), IF i < 200 THEN NaN ELSE R(100))]

Row1h(open, close, volume, ema20, ema50, line, signal, atr) ==
    [open |-> open, close |-> close, volume |-> volume,
     high |-> PyMax(open, close), low |-> PyMin(open, close),
     ema20 |-> ema20, ema50 |-> ema50,
     macd_line |-> line, macd_signal |-> signal,
     macd_hist |-> FSub(line, signal), atr |-> atr]

Quiet1h(i) ==
    Row1h(R(100), R(100), R(1000),
          IF i < 20 THEN NaN ELSE R(100), IF i < 50 THEN NaN ELSE R(100),
          IF i < 26 THEN NaN ELSE <<1, 4>>, IF i < 34 THEN NaN ELSE R(0),
          IF i < 15 THEN NaN ELSE R(3))

Rows1h(len, prev, curr, last) ==
    [i \in 1..len |->
        IF i = len THEN last
        ELSE IF i = len - 1 THEN curr
        ELSE IF i = len - 2 THEN prev
        ELSE Quiet1h(i)]

Rows10(len, base, closed, last) ==
    [i \in 1..len |->
        IF i = len THEN [close |-> last]
        ELSE IF i = len - 1 THEN [close |-> closed]
        ELSE [close |-> base]]

Rows5m(closed, last) ==
    <<[high |-> closed[1], low |-> closed[2]], [high |-> last[1], low |-> last[2]]>>

RowsMacd(len, prev, curr, last) ==
    [i \in 1..len |->
        [macd_line   |-> IF i = len THEN last ELSE IF i = len - 1 THEN curr
                         ELSE IF i = len - 2 THEN prev ELSE 0,
         macd_signal |-> 0]]

\* What the forming candle of every series of a run looks like: it has
\* just opened, it carries a volume spike, it swings the MACD histogram, or
\* it breaks down through every level.
FormingCandles == {"opened", "volume", "histogram", "breakdown"}

\* The closed candles of a run: a bullish or a bearish cross, on a 1-hour
\* series of the given length.
ClosedCandles == {"LONG", "SHORT"} \X {50, 51, 100}

Forming1h(curr, forming) ==
    IF forming = "opened"
    THEN [curr EXCEPT !.open = curr.close, !.volume = R(10)]
    ELSE IF forming = "volume"
    THEN [curr EXCEPT !.open = curr.close, !.volume = R(9000)]
    ELSE IF forming = "histogram"
    THEN [curr EXCEPT !.open = curr.close, !.macd_line = R(5),
                      !.macd_hist = FSub(R(5), curr.macd_signal)]
    ELSE Row1h(curr.close, R(80), R(5000), R(90), R(100), R(-5), R(0), R(6))

\* The series of a run.
RunOf(closed, forming) ==
    LET long == closed[1] = "LONG"
        prev == IF long
                THEN Row1h(R(100), R(100), R(1000), R(100), R(100), R(-1), R(0), R(3))
                ELSE Row1h(R(100), R(100), R(1000), R(100), R(100), R(1), R(0), R(3))
        curr == IF long
                THEN Row1h(R(100), R(102), R(1500), R(105), R(100), R(1), <<1, 2>>, R(3))
                ELSE Row1h(R(100), R(98), R(1500), R(95), R(100), R(-1), <<-1, 2>>, R(3))
    IN  [h4   |-> Rows4h(201,
                         Row4h(IF long THEN R(110) ELSE R(90), R(100)),
                         IF forming = "breakdown" THEN Row4h(R(50), R(100))
                         ELSE Row4h(IF long THEN R(110) ELSE R(90), R(100))),
         h1   |-> Rows1h(closed[2], prev, curr, Forming1h(curr, forming)),
         btc  |-> Rows10(10, R(100), R(105),
                         IF forming = "breakdown" THEN R(50) ELSE R(105)),
         coin |-> Rows10(10, R(100), R(102),
                         IF forming = "breakdown" THEN R(40) ELSE R(102)),
         m5   |-> Rows5m(<<R(1010), R(990)>>,
                         IF forming = "breakdown" THEN <<R(1000), R(900)>>
                         ELSE <<R(1000), R(1000)>>),
         macd |-> RowsMacd(30, 0, 1,
                           IF forming \in {"breakdown", "histogram"} THEN -1 ELSE 1)]

\* Two runs whose series differ in the forming candle at most.
InitCandles ==
    /\ \E halved \in BOOLEAN :
          LET o == OpenedAll(FetchSeed)
              r == HalfClosed(o.st, "BTC/USDT")
          IN  IF halved
              THEN /\ state = r.st
                   /\ trade_log = o.log \o r.log
                   /\ reply = [kind |-> "half_closed", symbol |-> "BTC/USDT"]
              ELSE /\ state = o.st
                   /\ trade_log = o.log
                   /\ reply = o.reply
    /\ handler = IdleHandler
    /\ monitor = IdleMonitor
    /\ \E closed \in ClosedCandles, a \in FormingCandles, b \in FormingCandles :
          scanner = NewRuns("BTC/USDT", <<RunOf(closed, a), RunOf(closed, b)>>)
    /\ alerts = NoAlerts
    /\ files = NoFiles
    /\ proc = IdleProc

MonitorSeriesPriced == \E ticker \in TickerValues : MonitorSeries(ticker)

NextCandles ==
    \/ ScanSeries
    \/ MonitorSeriesPriced

SpecCandles == InitCandles /\ [][NextCandles]_vars

\* 1-hour series of 100 candles for the entry stage.  The histogram has
\* the sign of dir on the last `bars` closed candles and the other sign
\* before; it grows by a full point a bar when `growing`, by a hundredth
\* otherwise.  The earlier candles are flat at 100 with volume 1000.
EntryBars == {1, 2, 3}
EntryCloses == {R(102), R(99)}
EntryEma50s == {R(100), R(103)}
EntryVolumes == {R(1500), R(900)}

\* v mirrored around 100 for a SHORT candidate.
Mirror(dir, v) == IF dir = "LONG" THEN v ELSE FSub(R(200), v)
Signed(dir, v) == IF dir = "LONG" THEN v ELSE FSub(R(0), v)

EntryRows(dir, bars, growing, close, ema50, volume) ==
    [i \in 1..100 |->
        IF i = 100
        THEN Row1h(Mirror(dir, close), Mirror(dir, close), R(10),
                   Mirror(dir, R(105)), Mirror(dir, ema50),
                   Signed(dir, R(bars)), R(0), R(3))
        ELSE IF i = 99
        THEN Row1h(R(100), Mirror(dir, close), volume,
                   Mirror(dir, R(105)), Mirror(dir, ema50),
                   Signed(dir, IF growing THEN R(bars) ELSE <<bars, 100>>),
                   R(0), R(3))
        ELSE IF i > 99 - bars
        THEN Row1h(R(100), R(100), R(1000), R(100), R(100),
                   Signed(dir, IF growing THEN R(i - (99 - bars))
                               ELSE <<i - (99 - bars), 100>>),
                   R(0), R(3))
        ELSE Row1h(R(100), R(100), R(1000),
                   IF i < 20 THEN NaN ELSE R(100), IF i < 50 THEN NaN ELSE R(100),
                   IF i < 26 THEN NaN ELSE Signed(dir, <<-1, 4>>),
                   IF i < 34 THEN NaN ELSE R(0),
                   IF i < 15 THEN NaN ELSE R(3))]

InitEntry ==
    /\ state = DefaultState
    /\ trade_log = <<>>
    /\ handler = IdleHandler
    /\ reply = NoReply
    /\ monitor = IdleMonitor
    /\ \E trend_direction \in {"LONG", "SHORT"}, dir \in {"LONG", "SHORT"},
          bars \in EntryBars, growing \in BOOLEAN, close \in EntryCloses,
          ema50 \in EntryEma50s, volume \in EntryVolumes :
          scanner = NewEntry("BTC/USDT", trend_direction,
                             EntryRows(dir, bars, growing, close, ema50, volume))
    /\ alerts = NoAlerts
    /\ files = NoFiles
    /\ proc = IdleProc

NextEntry == EntryChecked

SpecEntry == InitEntry /\ [][NextEntry]_vars

\* The whole program from the default state: every handler and the monitor.
Next ==
    \/ OpenStart(SpecTokens) /\ Explored(MaxLog)' /\ UNCHANGED <<scanvars, filevars>>
    \/ OpenFinish /\ Explored(MaxLog)' /\ UNCHANGED <<scanvars, filevars>>
    \/ OpenFetchFails /\ Explored(MaxLog)' /\ UNCHANGED <<scanvars, filevars>>
    \/ SlClosedPress /\ Explored(MaxLog)' /\ UNCHANGED <<scanvars, filevars>>
    \/ SlOpenPress /\ Explored(MaxLog)' /\ UNCHANGED <<scanvars, filevars>>
    \/ HalfClosePress /\ Explored(MaxLog)' /\ UNCHANGED <<scanvars, filevars>>
    \/ MonitorLoad /\ Explored(MaxLog)' /\ UNCHANGED <<scanvars, filevars>>
    \/ MonitorFetched /\ Explored(MaxLog)' /\ UNCHANGED <<scanvars, filevars>>
    \/ MonitorTickersFail /\ Explored(MaxLog)' /\ UNCHANGED <<scanvars, filevars>>

Spec == Init /\ [][Next]_vars

-----------------------------------------------------------------------------
(* Capital accounting (C1 .. C6).                                          *)

RECURSIVE SumAllocated(_, _)
\* The sum of allocated_capital over positions[1 .. n].
SumAllocated(positions, n) ==
    IF n = 0 THEN R(0)
    ELSE RAdd(SumAllocated(positions, n - 1), positions[n].allocated_capital)

\* C1: in every reachable state of the ledger available_cash + tied_capital
\* equals portfolio_balance, tied_capital is the sum of allocated_capital
\* over the open positions, and no position holds more than tied_capital or
\* a negative amount, so max(0, tied_capital - alloc) never clamps.
C1_CapitalAccounting ==
    /\ RAdd(state.available_cash, state.tied_capital) = state.portfolio_balance
    /\ state.tied_capital =
           SumAllocated(state.active_positions, Len(state.active_positions))
    /\ \A i \in DOMAIN state.active_positions :
          /\ RLe(R(0), state.active_positions[i].allocated_capital)
          /\ RLe(state.active_positions[i].allocated_capital, state.tied_capital)

\* A position is open after a partial close and a full close were booked.
C1_Witness ==
    /\ \E k \in DOMAIN trade_log : trade_log[k].action = "PARTIAL_CLOSE"
    /\ \E k \in DOMAIN trade_log : trade_log[k].action = "CLOSE"
    /\ state.active_positions # <<>>
    /\ state.portfolio_balance # R(25000)

\* The step books an OPEN: one record more, and it is an OPEN record.
OpenBooked ==
    /\ Len(trade_log') = Len(trade_log) + 1
    /\ trade_log'[Len(trade_log')].action = "OPEN"

\* What a booked open does to the state the handler read when the button
\* was pressed, with A a fifth of the balance of that state.
OpenEffect ==
    LET st == handler.state
        A == RMul(POSITION_SIZE_PCT, st.portfolio_balance)
        n == Len(st.active_positions)
    IN  /\ state'.available_cash = RSub(st.available_cash, A)
        /\ state'.tied_capital = RAdd(st.tied_capital, A)
        /\ state'.portfolio_balance = st.portfolio_balance
        /\ Len(state'.active_positions) = n + 1
        /\ SubSeq(state'.active_positions, 1, n) = st.active_positions
        /\ state'.active_positions[n + 1].allocated_capital = A
        /\ state'.active_positions[n + 1].tp1_hit = FALSE
        /\ state'.active_positions[n + 1].denial_count = 0
        /\ state'.active_positions[n + 1].symbol = handler.symbol
        /\ state'.active_positions[n + 1].side = handler.side

\* C2: a successful open allocates A = POSITION_SIZE_PCT x portfolio_balance,
\* takes A from available_cash, adds A to tied_capital, leaves the balance
\* as it is and appends exactly one position holding A, with tp1_hit false
\* and denial_count 0.
C2_OpenAllocates == [][OpenBooked => OpenEffect]_vars

\* An open was just booked next to an earlier position, after a loss had
\* changed the balance the allocation is taken from.
C2_Witness ==
    /\ reply.kind = "opened"
    /\ trade_log # <<>>
    /\ trade_log[Len(trade_log)].action = "OPEN"
    /\ Len(state.active_positions) >= 2
    /\ state.portfolio_balance # R(25000)
    /\ state.active_positions[Len(state.active_positions)].allocated_capital
           = RMul(POSITION_SIZE_PCT, state.portfolio_balance)

\* The price move from entry to exit as a fraction of entry, signed so that
\* a gain is positive, less the 0.2% round-trip fee.
NetMove(p, exit) ==
    RSub(RDiv(IF p.side = "LONG" THEN RSub(exit, p.entry_price)
                                 ELSE RSub(p.entry_price, exit),
              p.entry_price),
         <<1, 500>>)

\* The pnl of closing position p in full at its current stop.
ClosePnl(p) == RMul(p.allocated_capital, NetMove(p, p.current_sl))

RECURSIVE SumClosed(_, _, _, _)
\* The sum of f[i] over the positions[1 .. n] whose symbol is symbol.
SumClosed(positions, f, symbol, n) ==
    IF n = 0 THEN R(0)
    ELSE IF positions[n].symbol = symbol
         THEN RAdd(SumClosed(positions, f, symbol, n - 1), f[n])
         ELSE SumClosed(positions, f, symbol, n - 1)

\* What the full close of symbol does: every position named by the token
\* is removed, its pnl goes to the balance, its capital and pnl to the cash,
\* its capital leaves tied_capital, and one CLOSE record per position is
\* logged with that pnl.
CloseEffect(symbol) ==
    LET ps == state.active_positions
        n == Len(ps)
        pnl == [i \in DOMAIN ps |-> ClosePnl(ps[i])]
        back == [i \in DOMAIN ps |-> RAdd(ps[i].allocated_capital, pnl[i])]
        alloc == [i \in DOMAIN ps |-> ps[i].allocated_capital]
        closed == {i \in DOMAIN ps : ps[i].symbol = symbol}
    IN  /\ state'.available_cash =
               RAdd(state.available_cash, SumClosed(ps, back, symbol, n))
        /\ state'.portfolio_balance =
               RAdd(state.portfolio_balance, SumClosed(ps, pnl, symbol, n))
        /\ state'.tied_capital =
               RSub(state.tied_capital, SumClosed(ps, alloc, symbol, n))
        /\ Len(state'.active_positions) = n - Cardinality(closed)
        /\ \A j \in DOMAIN state'.active_positions :
               /\ state'.active_positions[j].symbol # symbol
               /\ \E i \in DOMAIN ps : ps[i] = state'.active_positions[j]
        /\ \A i \in DOMAIN ps \ closed :
               \E j \in DOMAIN state'.active_positions :
                   state'.active_positions[j] = ps[i]
        /\ Len(trade_log') = Len(trade_log) + Cardinality(closed)
        /\ SubSeq(trade_log', 1, Len(trade_log)) = trade_log
        /\ \A i \in closed :
               \E k \in Len(trade_log) + 1 .. Len(trade_log') :
                   /\ trade_log'[k].action = "CLOSE"
                   /\ trade_log'[k].pnl = pnl[i]
                   /\ trade_log'[k].side = ps[i].side

\* C3: a full close books pnl = A x (signed move from entry to the current
\* stop, as a fraction of entry, minus 0.2%), adds A + pnl to available_cash
\* and pnl to portfolio_balance, takes A from tied_capital and removes the
\* position, whatever alert the confirmation followed.
C3_FullClose == [][\A symbol \in Symbols : HandleSlClosed(symbol) => CloseEffect(symbol)]_vars

\* A SHORT was just closed at its stop with a loss while another position
\* stays open.
C3_Witness ==
    /\ reply.kind = "closed"
    /\ trade_log # <<>>
    /\ trade_log[Len(trade_log)].action = "CLOSE"
    /\ trade_log[Len(trade_log)].side = "SHORT"
    /\ trade_log[Len(trade_log)].pnl = R(-100)
    /\ state.active_positions # <<>>
    /\ state.portfolio_balance = R(24900)

\* The pnl of closing half of position p at its TP1 price.
HalfPnl(p) == RMul(RDiv(p.allocated_capital, R(2)), NetMove(p, p.tp1_price))

\* What the partial close of symbol does: every position of the symbol whose
\* tp1_hit is false gets tp1_hit true, half its capital and the break-even
\* stop, half its capital and the pnl go to the cash, the pnl to the balance,
\* and one PARTIAL_CLOSE record is logged; every other position is left as
\* it is.
HalfCloseEffect(symbol) ==
    LET ps == state.active_positions
        n == Len(ps)
        due == {i \in DOMAIN ps : ps[i].symbol = symbol /\ ~ps[i].tp1_hit}
        taken == [i \in DOMAIN ps |->
                     IF i \in due THEN HalfPnl(ps[i]) ELSE R(0)]
        back == [i \in DOMAIN ps |->
                     IF i \in due
                     THEN RAdd(RDiv(ps[i].allocated_capital, R(2)), HalfPnl(ps[i]))
                     ELSE R(0)]
        freed == [i \in DOMAIN ps |->
                     IF i \in due THEN RDiv(ps[i].allocated_capital, R(2))
                     ELSE R(0)]
    IN  /\ state'.available_cash =
               RAdd(state.available_cash, SumClosed(ps, back, symbol, n))
        /\ state'.portfolio_balance =
               RAdd(state.portfolio_balance, SumClosed(ps, taken, symbol, n))
        /\ state'.tied_capital =
               RSub(state.tied_capital, SumClosed(ps, freed, symbol, n))
        /\ Len(state'.active_positions) = n
        /\ \A i \in DOMAIN ps :
               IF i \in due
               THEN state'.active_positions[i] =
                        [ps[i] EXCEPT
                           !.tp1_hit = TRUE,
                           !.allocated_capital = RDiv(ps[i].allocated_capital, R(2)),
                           !.current_sl =
                               IF ps[i].side = "LONG"
                               THEN RMul(ps[i].entry_price, <<501, 500>>)
                               ELSE RMul(ps[i].entry_price, <<499, 500>>)]
               ELSE state'.active_positions[i] = ps[i]
        /\ Len(trade_log') = Len(trade_log) + Cardinality(due)
        /\ SubSeq(trade_log', 1, Len(trade_log)) = trade_log
        /\ \A k \in Len(trade_log) + 1 .. Len(trade_log') :
               trade_log'[k].action = "PARTIAL_CLOSE"
        /\ due = {} => (state' = state /\ trade_log' = trade_log)

\* Every partial-close step has the effect above: it acts on the positions
\* whose tp1_hit is false and on nothing else.
HalfCloseStep == [][\A symbol \in Symbols : HandleHalfClose(symbol) => HalfCloseEffect(symbol)]_vars

\* The PARTIAL_CLOSE records the trade log holds for the position of a
\* symbol and side. A monitored portfolio holds one position per symbol and
\* side and opens none.
PartialCloses(symbol, side) ==
    {k \in DOMAIN trade_log : /\ trade_log[k].action = "PARTIAL_CLOSE"
                              /\ trade_log[k].symbol = symbol
                              /\ trade_log[k].side = side}

\* C4: partial close happens at most once per position: after the first
\* confirmed halfclose of a position every later halfclose for it changes
\* no capital figure and no position field and appends no trade-log record,
\* so the log never holds two PARTIAL_CLOSE records of one position.
C4_HalfCloseOnce ==
    \A symbol \in Symbols : \A side \in {"LONG", "SHORT"} :
        Cardinality(PartialCloses(symbol, side)) <= 1

\* The step is the first part of an open confirmation.
OpenPressed ==
    \E token \in OpenTokens : \E path \in Paths : \E atr_val \in TokenAtrs :
        HandleOpenStart(token[1], token[2], atr_val, path)

\* The step is the second part of an open confirmation.
OpenPriced == \E price \in OpenPrices : HandleOpenFinish(price)

\* C5: an open confirmation is rejected when MAX_POSITIONS positions are
\* open, or when available_cash is less than POSITION_SIZE_PCT x
\* portfolio_balance: the user gets the rejection message, and the persisted
\* state and the trade log stay as they are.
C5_OpenRejected ==
    [][/\ (OpenPressed /\ Len(state.active_positions) >= MAX_POSITIONS)
            => /\ reply'.kind = "max_positions"
               /\ handler'.pc = "idle"
               /\ state' = state
               /\ trade_log' = trade_log
       /\ (OpenPriced /\ RLt(handler.state.available_cash,
                             RMul(POSITION_SIZE_PCT, handler.state.portfolio_balance)))
            => /\ reply' = [kind |-> "no_cash", symbol |-> handler.symbol]
               /\ state' = state
               /\ trade_log' = trade_log]_vars

\* An open was just rejected for lack of cash with a free slot: after a
\* loss the fifth of the balance is more than the cash left.
C5_Witness ==
    /\ reply.kind = "no_cash"
    /\ handler.pc = "idle"
    /\ Len(state.active_positions) < MAX_POSITIONS
    /\ RLt(R(0), state.available_cash)
    /\ RLt(state.available_cash,
           RMul(POSITION_SIZE_PCT, state.portfolio_balance))

\* An open was just rejected with MAX_POSITIONS positions open.
OpenRejectedAtMax ==
    /\ reply.kind = "max_positions"
    /\ Len(state.active_positions) = MAX_POSITIONS

\* What the deny of symbol does: every position named by the token counts
\* one denial more and is otherwise as it was, every other position and
\* every other part of the state are as they were, and nothing is logged.
DenyEffect(symbol) ==
    LET ps == state.active_positions
    IN  /\ state'.portfolio_balance = state.portfolio_balance
        /\ state'.available_cash = state.available_cash
        /\ state'.tied_capital = state.tied_capital
        /\ state'.sent_signals = state.sent_signals
        /\ state'.bot_status = state.bot_status
        /\ Len(state'.active_positions) = Len(ps)
        /\ \A i \in DOMAIN ps :
               IF ps[i].symbol = symbol
               THEN state'.active_positions[i] =
                        [ps[i] EXCEPT !.denial_count = ps[i].denial_count + 1]
               ELSE state'.active_positions[i] = ps[i]
        /\ trade_log' = trade_log

\* C6: a deny changes nothing except the denial counter: denial_count of
\* the position named by the token grows by exactly 1, and the balance, the
\* cash, the tied capital, the set of open positions, every other position
\* field and sent_signals are unchanged.
C6_DenyFrame == [][\A symbol \in Symbols : HandleSlOpen(symbol) => DenyEffect(symbol)]_vars

\* BTC was just denied for the second time while ETH, never denied, is open
\* next to it.
C6_Witness ==
    /\ reply = [kind |-> "denied", symbol |-> "BTC/USDT"]
    /\ \E i \in DOMAIN state.active_positions :
          /\ state.active_positions[i].symbol = "BTC/USDT"
          /\ state.active_positions[i].denial_count = 2
    /\ \E i \in DOMAIN state.active_positions :
          /\ state.active_positions[i].symbol = "ETH/USDT"
          /\ state.active_positions[i].denial_count = 0

-----------------------------------------------------------------------------
(* The position monitor (C7 .. C10).                                       *)

\* The stop of position p is reached: by the wick of the last closed
\* 5-minute candle in the adverse direction, or by the live price.
StopReached(p, ticker, candle) ==
    IF p.side = "LONG"
    THEN \/ candle.ok /\ RLe(candle.low, p.current_sl)
         \/ ticker.ok /\ RLe(ticker.last, p.current_sl)
    ELSE \/ candle.ok /\ RLe(p.current_sl, candle.high)
         \/ ticker.ok /\ RLe(p.current_sl, ticker.last)

\* The step completes a monitor cycle.
CycleEnds == monitor.pc = "fetch" /\ monitor'.pc = "saved"

\* The cycle that just completed looked at position p and found its stop
\* not reached.
SeenSafe(p) ==
    /\ monitor.tickers[p.symbol].ok
    /\ ~StopReached(p, monitor.tickers[p.symbol], monitor.candles_5m[p.symbol])

\* The positions of seq that are the position p: a monitored portfolio
\* holds one position per symbol and side.
Same(seq, p) ==
    {j \in DOMAIN seq : seq[j].symbol = p.symbol /\ seq[j].side = p.side}

\* What C7 asks of one step, for every position denied twice.
SilencedStep ==
    \A i \in DOMAIN state.active_positions :
        LET p == state.active_positions[i]
        IN  p.denial_count >= 2 =>
               /\ \A j \in Same(state'.active_positions, p) :
                     \/ state'.active_positions[j].denial_count >= 2
                     \/ CycleEnds /\ SeenSafe(p)'
               /\ CycleEnds =>
                     \A j \in Same(monitor'.loaded.active_positions, p) :
                         monitor'.alerts[j] # "sl_breach"

\* The same, for the cycles during which no handler saved the state.
SilencedUnlessRaced == [][(CycleEnds => monitor.loaded = state) => SilencedStep]_vars

\* C7: once a position was denied twice its denial counter is 2, and every
\* later monitor cycle emits no stop-loss alert for it and leaves the
\* counter at 2, until a cycle observes its stop not breached, however the
\* denials interleave with the cycles.
C7_DeniedTwiceSilences == [][SilencedStep]_vars

\* The cycle that completes in this step detected a breach of the stop of
\* the position p it loaded: it had the ticker and the stop was reached.
BreachDetected(p) ==
    /\ monitor'.tickers[p.symbol].ok
    /\ StopReached(p, monitor'.tickers[p.symbol], monitor'.candles_5m[p.symbol])

\* The cycle that completes in this step had the ticker of position p.
TickerSeen(p) == monitor'.tickers[p.symbol].ok

BreachBeforeMomentum ==
    /\ monitor.pc = "saved"
    /\ \E i \in DOMAIN monitor.loaded.active_positions :
          LET p == monitor.loaded.active_positions[i]
              df == monitor.macd_dfs[p.symbol]
          IN  /\ p.tp1_hit /\ df.ok
              /\ p.side = "LONG" /\ df.ml_prev >= df.ms_prev /\ df.ml_curr < df.ms_curr
              /\ monitor.alerts[i] = "sl_breach"

\* The TP1 level of position p is reached in the favorable direction: by
\* the wick of the last closed 5-minute candle, or by the live price.
Tp1Reached(p, ticker, candle) ==
    IF p.side = "LONG"
    THEN \/ candle.ok /\ RLe(p.tp1_price, candle.high)
         \/ ticker.ok /\ RLe(p.tp1_price, ticker.last)
    ELSE \/ candle.ok /\ RLe(candle.low, p.tp1_price)
         \/ ticker.ok /\ RLe(ticker.last, p.tp1_price)

\* In the cycle that completes in this step, the TP1 request is sent for a
\* position the cycle could check exactly when no breach was detected, the
\* tp1_hit the cycle loaded is false and TP1 is reached.
Tp1AskedWhenDue ==
    \A i \in DOMAIN monitor.loaded.active_positions :
        LET p == monitor.loaded.active_positions[i]
        IN  TickerSeen(p) =>
               (monitor'.alerts[i] = "tp1_hit"
                   <=> /\ ~BreachDetected(p)
                       /\ ~p.tp1_hit
                       /\ Tp1Reached(p, monitor'.tickers[p.symbol],
                                     monitor'.candles_5m[p.symbol]))

\* In the cycle that completes in this step, no TP1 request is sent for a
\* position whose tp1_hit is true in the persisted state.
Tp1NotAskedAgain ==
    \A i \in DOMAIN state.active_positions :
        state.active_positions[i].tp1_hit =>
            \A j \in Same(monitor.loaded.active_positions, state.active_positions[i]) :
                monitor'.alerts[j] # "tp1_hit"

\* C10: a cycle emits the TP1 request for a position exactly when no breach
\* was detected, tp1_hit is false and the wick of the closed 5-minute candle
\* or the live price reaches TP1 in the favorable direction; and once
\* tp1_hit is true no TP1 request is ever emitted for the position again.
C10_Tp1Once == [][CycleEnds => (Tp1AskedWhenDue /\ Tp1NotAskedAgain)]_vars

\* The same, for the cycles during which no handler saved the state.
Tp1OnceUnlessRaced ==
    [][(CycleEnds /\ monitor.loaded = state) => (Tp1AskedWhenDue /\ Tp1NotAskedAgain)]_vars

\* Every cycle asks as claimed on the state it loaded.
Tp1AskedOnLoaded == [][CycleEnds => Tp1AskedWhenDue]_vars

\* A cycle sent the TP1 request for a SHORT on a candle whose low touches
\* TP1.
Tp1Asked ==
    /\ monitor.pc = "saved"
    /\ \E i \in DOMAIN monitor.loaded.active_positions :
          /\ monitor.loaded.active_positions[i].side = "SHORT"
          /\ monitor.alerts[i] = "tp1_hit"

\* The 1-hour MACD line crossed its signal line against position p between
\* the last two fully closed bars.
CrossedAgainst(p, df) ==
    /\ df.ok
    /\ IF p.side = "LONG"
       THEN df.ml_prev >= df.ms_prev /\ df.ml_curr < df.ms_curr
       ELSE df.ml_prev <= df.ms_prev /\ df.ml_curr > df.ms_curr

\* C11: a cycle emits the momentum-exit request for a position only when
\* its tp1_hit is true, its denial counter is below 2, no breach of its stop
\* was detected in the cycle and the 1-hour MACD line crossed the signal
\* line against it between the last two closed bars; and never for a
\* position whose partial close was not confirmed (the trade log holds its
\* PARTIAL_CLOSE record).
C11_MomentumExit ==
    monitor.pc = "saved" =>
        \A i \in DOMAIN monitor.loaded.active_positions :
            LET p == monitor.loaded.active_positions[i]
                ticker == monitor.tickers[p.symbol]
            IN  monitor.alerts[i] = "momentum_exit" =>
                   /\ p.tp1_hit
                   /\ p.denial_count < 2
                   /\ ticker.ok
                   /\ ~StopReached(p, ticker, monitor.candles_5m[p.symbol])
                   /\ CrossedAgainst(p, monitor.macd_dfs[p.symbol])
                   /\ PartialCloses(p.symbol, p.side) # {}

\* A cycle asked to close the rest of a SHORT whose half was closed: the
\* MACD line crossed above its signal and the price is below the break-even
\* stop.
C11_Witness ==
    /\ monitor.pc = "saved"
    /\ \E i \in DOMAIN monitor.loaded.active_positions :
          LET p == monitor.loaded.active_positions[i]
          IN  /\ p.side = "SHORT" /\ p.tp1_hit
              /\ monitor.alerts[i] = "momentum_exit"
              /\ monitor.macd_dfs[p.symbol].ml_curr > monitor.macd_dfs[p.symbol].ms_curr

-----------------------------------------------------------------------------
(* The monitor's frame (C12).                                              *)

\* State b is state a but for the denial counters of its positions.
SameButDenials(a, b) ==
    /\ b.portfolio_balance = a.portfolio_balance
    /\ b.available_cash = a.available_cash
    /\ b.tied_capital = a.tied_capital
    /\ b.bot_status = a.bot_status
    /\ b.sent_signals = a.sent_signals
    /\ Len(b.active_positions) = Len(a.active_positions)
    /\ \A i \in DOMAIN a.active_positions :
          [b.active_positions[i] EXCEPT !.denial_count = 0]
              = [a.active_positions[i] EXCEPT !.denial_count = 0]

\* C12: no state transition is automatic: a monitor cycle changes neither
\* the balance, the cash, the tied capital, the set of open positions nor
\* any position's stop, TP1, tp1_hit or allocated capital; the persisted
\* state after the cycle holds the values of the latest user-confirmed
\* transition, with at most some denial counters reset.
C12_MonitorFrame == [][CycleEnds => SameButDenials(state, state')]_vars

\* The same, for the cycles during which no handler saved the state.
MonitorFrameUnlessRaced ==
    [][(CycleEnds /\ monitor.loaded = state) => SameButDenials(state, state')]_vars

\* Every cycle saves the state it loaded, but for the denial counters.
MonitorFrameOnLoaded == [][CycleEnds => SameButDenials(monitor.loaded, state')]_vars

-----------------------------------------------------------------------------
(* Signal deduplication.                                                   *)

\* A step that ends a run of the hourly job, and one that ends a /scan.
ScannerEnds == scanner.pc = "scan" /\ scanner'.pc = "idle"
ScanEnds == handler.pc = "scan" /\ handler'.pc = "idle"

\* No alert of key k is added by the step.
NoNewAlert(k) ==
    /\ alerts'.out[<<k, "scanner">>] = alerts.out[<<k, "scanner">>]
    /\ alerts'.out[<<k, "scan">>] = alerts.out[<<k, "scan">>]

\* A key of the sent-set the scan loaded that is detected again is not
\* alerted and is in the sent-set the scan leaves.
KeptQuiet(prior_sent, signals) ==
    \A k \in prior_sent : k \in signals => NoNewAlert(k) /\ k \in state'.sent_signals

\* A key of the sent-set the scan loaded that is not detected is not in the
\* sent-set the scan leaves.
Purged(prior_sent, signals) ==
    \A k \in prior_sent : k \notin signals => k \notin state'.sent_signals

\* C13: in the hourly scan and in the manual /scan alike, a key of the prior
\* sent-set that is detected again produces no new confirmation request and
\* stays in the sent-set, and a key of the prior sent-set that is not
\* detected is removed from the sent-set when the scan finishes.
C13_SignalDedup ==
    [][/\ ScannerEnds =>
            /\ KeptQuiet(scanner.loaded.sent_signals, scanner'.signals)
            /\ Purged(scanner.loaded.sent_signals, scanner'.signals)
       /\ ScanEnds =>
            /\ KeptQuiet(handler.state.sent_signals, reply'.signals)
            /\ Purged(handler.state.sent_signals, reply'.signals)]_vars

\* The hourly job does both.
ScannerDedup ==
    [][ScannerEnds =>
            /\ KeptQuiet(scanner.loaded.sent_signals, scanner'.signals)
            /\ Purged(scanner.loaded.sent_signals, scanner'.signals)]_vars

\* /scan alerts no key of the sent-set it loaded; a key detected again
\* stays in the sent-set whenever the command finds a signal and saves.
ScanDedup ==
    [][ScanEnds =>
            /\ \A k \in handler.state.sent_signals : NoNewAlert(k)
            /\ reply'.signals # {} =>
                  handler.state.sent_signals \subseteq state'.sent_signals]_vars

-----------------------------------------------------------------------------
(* Outstanding alerts.                                                     *)

\* The alerts of key k that were sent and are neither confirmed nor
\* ignored.
Outstanding(k) == alerts.out[<<k, "scanner">>] + alerts.out[<<k, "scan">>]

OneOutstandingWhileSent ==
    [][\A k \in ScanSignals :
          /\ ScannerEnds /\ k \in scanner.loaded.sent_signals => NoNewAlert(k)
          /\ ScanEnds /\ k \in handler.state.sent_signals => NoNewAlert(k)]_vars

-----------------------------------------------------------------------------
(* Answers to a signal alert.                                              *)

\* The step handles the Ignore button of alert a.
IgnorePressed(a) ==
    /\ handler.pc = "idle" /\ handler'.pc = "idle"
    /\ reply'.kind = "ignored"
    /\ alerts'.out[a] = alerts.out[a] - 1

\* The state after the step is st but for its sent_signals.
SameButSent(st) == [state' EXCEPT !.sent_signals = st.sent_signals] = st

IgnoreWithoutSide ==
    [][\A a \in AlertKinds :
          IgnorePressed(a) /\ Len(IgnoreToken(a)) = 2 => state' = state]_vars

-----------------------------------------------------------------------------
(* Overlap of the evaluation cycles.                                       *)

\* The cycles that have loaded the state and not yet saved it.
CyclesOpen ==
    {c \in {"signal_scanner", "scan", "position_monitor"} :
        \/ c = "signal_scanner" /\ scanner.pc = "scan"
        \/ c = "scan" /\ handler.pc = "scan"
        \/ c = "position_monitor" /\ monitor.pc = "fetch"}

\* C16: evaluation cycles never overlap on the persisted state: while one
\* cycle (hourly scan, position monitor or /scan) is between its load and
\* its save, no other cycle has loaded the state.
C16_NoOverlap == Cardinality(CyclesOpen) <= 1

-----------------------------------------------------------------------------
(* Persistence.                                                            *)

\* What a reader of state.json gets.
StateFileRead == JsonLoad(files[STATE_FILE].text)

\* C17: persistence is atomic: save_state writes the whole state to a
\* temporary file and renames it over the target, so a reader, or a restart
\* after a crash at any step of a save or between a mutation in memory and
\* its save, finds either no file (before the first save ended) or the
\* complete state of the last save that ended: never a partial or corrupt
\* text.  A save ends with its rename, so that state is the previous one
\* up to the rename and the new one from it on.
C17_AtomicSave ==
    IF files[STATE_FILE].exists
    THEN StateFileRead.ok /\ StateFileRead.v = proc.saved
    ELSE proc.saved = PyNone

\* The process died while it was writing a state other than the saved one:
\* the temporary file holds a text that does not decode.
C17_Witness ==
    /\ proc.pc = "down"
    /\ files[STATE_FILE].exists
    /\ files[TmpName(STATE_FILE)].exists
    /\ Len(files[TmpName(STATE_FILE)].text) > 5
    /\ ~JsonLoad(files[TmpName(STATE_FILE)].text).ok

\* load_state returns: the step ends in "loaded".
LoadReturns == proc.pc # "loaded" /\ proc'.pc = "loaded"

\* C18: load_state on an absent state file creates the default state
\* (portfolio_balance 25000.0, available_cash 25000.0, tied_capital 0.0,
\* bot_status "ready", no open positions), persists it and returns it;
\* every later load_state without a save in between returns that same state.
C18_DefaultCreated ==
    [][/\ (LoadReturns /\ proc.created) =>
             /\ proc'.mem = default_state
             /\ files'[STATE_FILE] = [exists |-> TRUE, text |-> JsonDump(default_state)]
       /\ (proc.pc \in {"idle", "loaded"} /\ proc'.pc = "loaded"
             /\ proc.saved = default_state) =>
             proc'.mem = default_state]_vars

\* The default state was created, and a later load has returned it.
C18_Witness ==
    /\ proc.pc = "loaded" /\ ~proc.created
    /\ proc.mem = default_state
    /\ proc.saved = default_state

\* C19: round trip: for every portfolio state s, save_state(s) followed by
\* load_state() returns a state equal to s field for field, and a second
\* save overwrites the first: load returns the state saved last.
C19_RoundTrip ==
    [][/\ \A s \in PortfolioStates \cup {default_state} :
             JsonLoad(JsonDump(s)) = Parsed(s, Len(JsonDump(s)) + 1)
       /\ (proc.pc = "saved" /\ proc'.pc = "loaded") => proc'.mem = proc.mem
       /\ (proc.pc \in {"idle", "loaded", "saved"} /\ proc'.pc = "loaded") =>
             proc'.mem = proc.saved]_vars

\* A state with an open position was saved over the default state and
\* loaded back.
C19_Witness ==
    /\ proc.pc = "loaded" /\ ~proc.created
    /\ proc.mem = PyOfState(OpenedAll(<<<<"LONG", "BTC/USDT">>>>).st)
    /\ proc.saved = proc.mem

\* What json.dump and json.load do not give back: a tuple is read as a
\* list.
TupleReadAsList ==
    JsonLoad(JsonDump(PyTuple(<<PyInt(1)>>))).v = PyList(<<PyInt(1)>>)

-----------------------------------------------------------------------------
(* The trade log and its failures.                                         *)

\* The records the step appends to the trade log.
Appended == SubSeq(trade_log', Len(trade_log) + 1, Len(trade_log'))

\* The positions of the state before the step that the step closes, and
\* those it half-closes.
ClosedByStep ==
    Len(state.active_positions) - Len(state'.active_positions)
HalvedByStep ==
    Cardinality({i \in DOMAIN state.active_positions :
        /\ i \in DOMAIN state'.active_positions
        /\ ~state.active_positions[i].tp1_hit
        /\ state'.active_positions[i].tp1_hit})

\* A step in which no append fails logs one record of the matching kind for
\* every position it opens, closes or half-closes.
OneRecordEach ==
    [][/\ (handler.pc = "fetch" /\ reply'.kind = "opened"
             /\ Len(state'.active_positions) = Len(handler.state.active_positions) + 1
             /\ trade_log' # trade_log) =>
            Len(Appended) = 1 /\ Appended[1].action = "OPEN"
       /\ (handler.pc = "idle" /\ state' # state /\ reply'.kind = "closed") =>
            /\ Len(Appended) = ClosedByStep
            /\ \A k \in DOMAIN Appended : Appended[k].action = "CLOSE"
       /\ (handler.pc = "idle" /\ state' # state /\ reply'.kind = "half_closed") =>
            /\ Len(Appended) = HalvedByStep
            /\ \A k \in DOMAIN Appended : Appended[k].action = "PARTIAL_CLOSE"]_vars

\* C20: every confirmed capital-affecting transition (open, full close,
\* partial close) appends one trade-log record of the matching kind, and a
\* failure of that append never prevents the transition from being applied
\* and persisted: after a failed append the saved state reflects the
\* transition.
C20_LogFailureHarmless ==
    [][/\ \A price \in OpenPrices :
            HandleOpenLogFails(price) =>
               state' = OpenedState(handler.state, handler.side, handler.symbol,
                                    handler.atr_val, handler.path, price)
       /\ \A symbol \in Symbols, n \in 1..MAX_POSITIONS :
            /\ HandleSlClosedLogFails(symbol, n) => state' = SlClosed(state, symbol).st
            /\ HandleHalfCloseLogFails(symbol, n) => state' = HalfClosed(state, symbol).st]_vars

\* A failed append of the OPEN record leaves the opened state saved.
OpenLogFailureHarmless ==
    [][\A price \in OpenPrices :
          HandleOpenLogFails(price) =>
             /\ Len(state'.active_positions) = Len(handler.state.active_positions) + 1
             /\ state'.tied_capital # handler.state.tied_capital]_vars

\* A failed append of a CLOSE or PARTIAL_CLOSE record leaves the state as
\* it was: the transition is not saved.
CloseLogFailureLosesTransition ==
    [][\A symbol \in Symbols, n \in 1..MAX_POSITIONS :
          (HandleSlClosedLogFails(symbol, n) \/ HandleHalfCloseLogFails(symbol, n))
             => state' = state]_vars

-----------------------------------------------------------------------------
(* A trade log that does not decode.                                       *)

\* trade_log.json exists and json.load raises JSONDecodeError on it.
LogUnreadable ==
    files[TRADE_LOG_FILE].exists /\ ~JsonLoad(files[TRADE_LOG_FILE].text).ok

\* C21: when the existing trade log cannot be parsed, log_trade swallows
\* the read failure, treats the prior log as empty and still writes the new
\* record: it raises nothing, the log it writes holds exactly that record,
\* and no step of it touches the portfolio state file.
C21_CorruptLogSwallowed ==
    [][/\ (proc.pc = "idle" /\ proc'.pc \in {"logread", "raised"} /\ LogUnreadable) =>
            /\ proc'.pc = "logread"
            /\ proc'.mem.t = "list" /\ Len(proc'.mem.v) = 1
            /\ proc'.mem.v[1] \in LogEntries
       /\ (proc.pc = "logwrite" /\ proc'.pc = "idle") =>
            JsonLoad(files'[TRADE_LOG_FILE].text) =
               Parsed(proc.mem, Len(JsonDump(proc.mem)) + 1)
       /\ files'[STATE_FILE] = files[STATE_FILE]
       /\ files'[TmpName(STATE_FILE)] = files[TmpName(STATE_FILE)]]_vars

\* log_trade has read a log cut short by a crash during an earlier append,
\* and is about to write the one new record.
C21_Witness ==
    /\ proc.pc = "logread"
    /\ LogUnreadable
    /\ Len(files[TRADE_LOG_FILE].text) > 5
    /\ Len(proc.mem.v) = 1
    /\ files[STATE_FILE].text = JsonDump(default_state)

-----------------------------------------------------------------------------
(* Exceptions in the button handler.                                       *)

\* The step is a button press in which fetch_ticker raised.
FetchRaised == HandleOpenFetchFails

\* The step is a button press in which log_trade raised.
LogRaised ==
    \/ \E price \in OpenPrices : HandleOpenLogFails(price)
    \/ \E symbol \in Symbols, n \in 1..MAX_POSITIONS :
          HandleSlClosedLogFails(symbol, n) \/ HandleHalfCloseLogFails(symbol, n)

\* C22: an unexpected exception raised while a button press is handled is
\* caught at the handler boundary, logged and reported back to the user as
\* a failure notice; it never leaves button_handler, and the persisted
\* state is the same as before the press.
C22_ExceptionReported ==
    [][(FetchRaised \/ LogRaised) =>
          /\ handler'.pc = "idle"
          /\ reply' # reply /\ reply'.kind = "failed"
          /\ state' = state]_vars

\* What the handler does keep when fetch_ticker raises: the press ends, the
\* state and the trade log are as before, and the user is told nothing.
FetchFailureContained ==
    [][FetchRaised =>
          /\ handler'.pc = "idle"
          /\ state' = state /\ trade_log' = trade_log
          /\ reply' = reply]_vars

-----------------------------------------------------------------------------
(* Failed fetches in a monitor cycle (C23).                                *)

\* The step ends a monitor cycle, by its save or by an exception.
CycleLeft == monitor.pc = "fetch" /\ monitor'.pc # "fetch"

\* The data of one cycle with everything but one symbol's entry missing.
Only(data, none, symbol) ==
    [s \in Symbols |-> IF s = symbol THEN data[s] ELSE none]

\* Position i of the loaded state was evaluated by the cycle that just
\* ended exactly as if the fetches of every other symbol had failed: its
\* request and its denial reset depend on the data of its own symbol only.
EvaluatedAlone(i) ==
    LET p == monitor'.loaded.active_positions[i]
        tickers == Only(monitor'.tickers, NoTicker, p.symbol)
        candles_5m == Only(monitor'.candles_5m, NoCandle, p.symbol)
        macd_dfs == Only(monitor'.macd_dfs, NoMacd, p.symbol)
    IN  /\ monitor'.alerts[i] = CheckPosition(p, tickers, candles_5m, macd_dfs)
        /\ monitor'.saved.active_positions[i] = ResetDenial(p, tickers, candles_5m)

\* C23: a failed fetch for one position's symbol (5-minute candle, 1-hour
\* MACD candles or ticker) touches that position only: the cycle never
\* ends by an exception, every position is evaluated on the data of its
\* own symbol whatever failed for the others, and the cycle saves the
\* state.
C23_FetchFailureIsolated ==
    [][CycleLeft => /\ monitor'.pc = "saved"
                    /\ state' = monitor'.saved
                    /\ \A i \in DOMAIN monitor'.loaded.active_positions :
                          EvaluatedAlone(i)]_vars

\* What the code keeps: a cycle whose fetch_tickers call returns saves the
\* state and evaluates every position on the data of its own symbol, with
\* any candle, MACD or ticker entry of the other symbols missing.
ReturnedFetchesIsolated ==
    [][CycleEnds => /\ state' = monitor'.saved
                    /\ \A i \in DOMAIN monitor'.loaded.active_positions :
                          EvaluatedAlone(i)]_vars

\* A cycle in which the 5-minute candle and the ticker of one symbol are
\* missing while the position of the other symbol gets its request.
OtherStillChecked ==
    /\ monitor.pc = "saved"
    /\ \E i, j \in DOMAIN monitor.loaded.active_positions :
          LET p == monitor.loaded.active_positions[i]
              q == monitor.loaded.active_positions[j]
          IN  /\ p.symbol # q.symbol
              /\ ~monitor.tickers[p.symbol].ok
              /\ ~monitor.candles_5m[p.symbol].ok
              /\ monitor.alerts[i] = "none"
              /\ monitor.alerts[j] = "sl_breach"

-----------------------------------------------------------------------------
(* Stop and target on open (C25).                                          *)

\* The step books an open: the position appended is the last one.
LevelsBooked ==
    /\ handler.pc = "fetch"
    /\ reply'.kind = "opened"

\* Stop and target at distance risk from the entry P.
LevelsAt(side, P, risk, sl, tp1) ==
    IF side = "LONG"
    THEN /\ sl = RSub(P, risk)
         /\ tp1 = RAdd(P, RDiv(RMul(R(3), risk), R(2)))
    ELSE /\ sl = RAdd(P, risk)
         /\ tp1 = RSub(P, RDiv(RMul(R(3), risk), R(2)))

\* The risk for entry P and ATR a.
RiskFor(P, a) == IF RLt(R(0), a) THEN RAdd(a, a) ELSE RDiv(P, R(25))

\* C25: a position opened at price P with ATR a has risk 2a when a > 0 and
\* 4% of P otherwise, its stop one risk and its TP1 one and a half risks
\* from P on the side of the trade (65000 / 1500 gives 62000 / 69500 LONG
\* and 68000 / 60500 SHORT); the preview levels of an alert follow the
\* same formula on the price and ATR of the signal.
C25_StopAndTarget ==
    [][/\ LevelsBooked =>
            LET p == state'.active_positions[Len(state'.active_positions)]
                P == p.entry_price
                a == handler.atr_val
            IN  /\ p.initial_risk = RiskFor(P, a)
                /\ LevelsAt(p.side, P, RiskFor(P, a), p.current_sl, p.tp1_price)
                /\ P = R(65000) /\ a = R(1500) =>
                      IF p.side = "LONG"
                      THEN p.current_sl = R(62000) /\ p.tp1_price = R(69500)
                      ELSE p.current_sl = R(68000) /\ p.tp1_price = R(60500)
       /\ (reply'.kind = "alert" /\ reply' # reply) =>
            LevelsAt(reply'.side, reply'.price,
                     RiskFor(reply'.price, reply'.atr_val),
                     reply'.preview_sl, reply'.preview_tp1)]_vars

\* A LONG opened at 65000 with ATR 1500 from an alert that previewed the
\* same levels.
C25_Witness ==
    /\ reply.kind = "opened"
    /\ \E i \in DOMAIN state.active_positions :
          LET p == state.active_positions[i]
          IN  /\ p.side = "LONG"
              /\ p.entry_price = R(65000)
              /\ p.initial_risk = R(3000)
              /\ p.current_sl = R(62000)
              /\ p.tp1_price = R(69500)

\* A position opened on the fallback risk of 4% of the price: the ATR of
\* its signal was zero, negative, or printed as 0.0000 in the token.
FallbackOpened ==
    /\ reply.kind = "opened"
    /\ \E i \in DOMAIN state.active_positions :
          LET p == state.active_positions[i]
          IN  /\ p.entry_price = R(1000)
              /\ p.initial_risk = R(40)

\* The levels of the position opened from an alert are those the alert
\* previewed whenever the ticker price at the press is the price of the
\* signal and the ATR read from the token is the ATR of the signal.
PreviewKept ==
    [][(LevelsBooked /\ reply.kind = "alert"
          /\ handler.atr_val = reply.atr_val
          /\ state'.active_positions[Len(state'.active_positions)].entry_price
                = reply.price)
        => LET p == state'.active_positions[Len(state'.active_positions)]
           IN  p.current_sl = reply.preview_sl /\ p.tp1_price = reply.preview_tp1]_vars

-----------------------------------------------------------------------------
(* The composite score (C26, C27).                                         *)

Scored == scanner.pc = "scored"

\* x is a number of [0, 100].
InRange(x) == ~IsNaN(x) /\ RLe(R(0), x) /\ RLe(x, R(100))

\* C26: for every snapshot and every relative strength the composite is
\* an integer of 0..100, and each of the six named components is present
\* and lies in [0, 100].
C26_ScoreInRange ==
    Scored =>
        /\ DOMAIN scanner.score_data.components =
              {ScoreNames[i] : i \in DOMAIN ScoreNames}
        /\ \A i \in DOMAIN ScoreNames :
              InRange(scanner.score_data.components[ScoreNames[i]])
        /\ scanner.score_data.composite \in 0..100

\* A score computed from a NaN relative strength on an all-zero snapshot
\* with empty series.
C26_Witness ==
    /\ Scored
    /\ IsNaN(scanner.btc_relative_strength)
    /\ "macd_hist_series" \in DOMAIN scanner.indicator_data
    /\ scanner.indicator_data.macd_hist_series = <<>>
    /\ scanner.indicator_data.macd_hist_current = R(0)
    /\ scanner.indicator_data.atr_val = R(0)
    /\ scanner.score_data.components.btc_relative = R(0)

\* The plain sum of the six components.
ComponentSum(components) ==
    ListSum([i \in DOMAIN ScoreNames |-> components[ScoreNames[i]]])

\* a and b differ by a half at most.
WithinRounding(a, b) ==
    /\ RLe(RSub(a, b), <<1, 2>>)
    /\ RLe(RSub(b, a), <<1, 2>>)

\* C27: the named components of the breakdown sum to the composite, within
\* rounding.
C27_ComponentsSumToComposite ==
    Scored =>
        WithinRounding(ComponentSum(scanner.score_data.components),
                       R(scanner.score_data.composite))

\* What the code keeps: the composite is the weighted sum of the
\* components, rounded.
WeightedComponentsSumToComposite ==
    Scored =>
        WithinRounding(WeightedSum(scanner.score_data.components),
                       R(scanner.score_data.composite))

-----------------------------------------------------------------------------
(* The market scan (C24, C28, C29, C30).                                   *)

\* scan_market has returned from a universe it read.
ScanReturned == scanner.pc = "returned" /\ scanner.pairs_file.exists

\* The k-th smallest number of the set S.
Nth(S, k) == CHOOSE i \in S : Cardinality({j \in S : j < i}) = k - 1

\* The universe positions whose own 4-hour data give a regime, and the
\* filtered pairs whose own 1-hour data give an entry.
Passing ==
    {i \in DOMAIN scanner.symbols : check_4h_trend(scanner.trend_data[i]) # "None"}
Accepted ==
    {k \in DOMAIN scanner.filtered_pairs :
        check_1h_entry(scanner.filtered_pairs[k].symbol,
                       scanner.filtered_pairs[k].trend,
                       scanner.entry_data[k]).ok}

\* C24: a failed candle fetch of one pair, in the regime or in the entry
\* stage, leaves that pair without regime or signal and no other: every
\* pair is judged on its own fetches whatever failed for the others, and
\* the scan returns the signals of the accepted pairs with the metadata.
C24_ScanFetchFailureIsolated ==
    ScanReturned =>
        /\ \A i \in DOMAIN scanner.symbols :
              ~scanner.trend_data[i].ok => i \notin Passing
        /\ \A k \in DOMAIN scanner.filtered_pairs :
              ~scanner.entry_data[k].ok =>
                  k \notin Accepted /\ ~scanner.entry_results[k].ok
        /\ Len(scanner.filtered_pairs) = Cardinality(Passing)
        /\ \A k \in DOMAIN scanner.filtered_pairs :
              /\ scanner.filtered_pairs[k].symbol = scanner.symbols[Nth(Passing, k)]
              /\ scanner.filtered_pairs[k].trend =
                     check_4h_trend(scanner.trend_data[Nth(Passing, k)])
              /\ scanner.entry_results[k].ok = (k \in Accepted)
        /\ Len(scanner.signals) = Cardinality(Accepted)
        /\ \A k \in Accepted :
              \E j \in DOMAIN scanner.signals :
                  /\ scanner.signals[j].symbol = scanner.filtered_pairs[k].symbol
                  /\ scanner.signals[j].signal = scanner.filtered_pairs[k].trend
                  /\ scanner.signals[j].price = scanner.entry_data[k].close
        /\ scanner.result.metadata =
              Metadata(Len(scanner.symbols), Cardinality(Passing), Cardinality(Accepted))
        /\ Len(scanner.result.signals) =
              IF Cardinality(Accepted) < 10 THEN Cardinality(Accepted) ELSE 10
        /\ \A j \in DOMAIN scanner.result.signals :
              scanner.result.signals[j] = scanner.signals[j]

\* The 4-hour fetch of the first pair failed and the second pair is
\* returned as a signal.
C24_Witness ==
    /\ ScanReturned
    /\ Len(scanner.symbols) = 2
    /\ scanner.symbols[1] # scanner.symbols[2]
    /\ ~scanner.trend_data[1].ok
    /\ Len(scanner.result.signals) = 1
    /\ scanner.result.signals[1].symbol = scanner.symbols[2]

\* The 1-hour fetch of the first pair failed and the second pair is
\* returned as a signal.
EntryFailureIsolated ==
    /\ ScanReturned
    /\ Len(scanner.filtered_pairs) = 2
    /\ scanner.symbols[1] # scanner.symbols[2]
    /\ ~scanner.entry_data[1].ok
    /\ Len(scanner.result.signals) = 1
    /\ scanner.result.signals[1].symbol = scanner.symbols[2]

\* Signal a ranks before signal b: the higher score, then the earlier pair
\* of the universe.
RanksBefore(a, b) ==
    \/ a.score > b.score
    \/ a.score = b.score /\ a.mc_rank < b.mc_rank

\* How often x occurs in the list.
Count(seq, x) == Cardinality({i \in DOMAIN seq : seq[i] = x})

\* Every accepted candidate of the scan, in the order of the entries.
AllCandidates ==
    Candidates(scanner.entry_results, scanner.symbols, scanner.btc_pct,
               scanner.coin_data, 1)

\* C28: the returned signals are in descending order of score, equal
\* scores in ascending order of the pair's position in the universe; there
\* are at most 10 of them, and they are the 10 best candidates under that
\* order: all of them when there are at most 10, and otherwise no candidate
\* left out ranks before a returned one.
C28_RankedTopTen ==
    ScanReturned =>
        \E all \in {AllCandidates} :
            LET returned == scanner.result.signals
            IN  /\ Len(returned) <= 10
                /\ Len(returned) = IF Len(all) < 10 THEN Len(all) ELSE 10
                /\ \A j \in DOMAIN returned, k \in DOMAIN returned :
                      j < k => ~RanksBefore(returned[k], returned[j])
                /\ \A j \in DOMAIN returned :
                      Count(returned, returned[j]) <= Count(all, returned[j])
                /\ \A i \in DOMAIN all :
                      Count(returned, all[i]) < Count(all, all[i]) =>
                          \A j \in DOMAIN returned : ~RanksBefore(all[i], returned[j])

\* Eleven candidates of which ten are returned, with equal and with
\* different scores among them, the first candidate of the universe not
\* being the best.
C28_Witness ==
    /\ ScanReturned
    /\ Len(scanner.signals) = 11
    /\ Len(scanner.result.signals) = 10
    /\ scanner.result.signals[1].mc_rank > 0
    /\ \E j \in 1..9 :
          scanner.result.signals[j].score = scanner.result.signals[j + 1].score
    /\ \E j \in 1..9 :
          scanner.result.signals[j].score > scanner.result.signals[j + 1].score

\* pairs.txt names no pair: every line is blank.
NoPairs ==
    \A i \in DOMAIN scanner.pairs_file.lines :
        \A j \in DOMAIN scanner.pairs_file.lines[i] :
            scanner.pairs_file.lines[i][j] \in Whitespace

\* C29: a scan of a missing pairs.txt, or of one that names no pair,
\* returns no signal and metadata of zeros.
C29_EmptyUniverse ==
    (scanner.pc = "returned" /\ (~scanner.pairs_file.exists \/ NoPairs)) =>
        /\ scanner.result.signals = <<>>
        /\ scanner.result.metadata.pairs_scanned = 0
        /\ scanner.result.metadata.filtered_count = 0
        /\ scanner.result.metadata.signals_found = 0

\* A scan that returned from a pairs.txt of blank lines.
C29_Witness ==
    /\ ScanReturned
    /\ scanner.pairs_file.lines # <<>>
    /\ NoPairs
    /\ scanner.result = NoPairsResult

\* A scan that returned without a pairs.txt.
MissingPairsReturned ==
    /\ scanner.pc = "returned"
    /\ ~scanner.pairs_file.exists
    /\ scanner.result = NoPairsResult

\* The regime stage of the scan is over.
RegimesKnown == scanner.pc \in {"entry", "score", "returned"} /\ scanner.pairs_file.exists

\* The regime of a pair from its 4-hour candles: none with fewer than 201
\* candles, an undefined EMA-200 or a close equal to it.
Regime(df) ==
    IF ~df.ok THEN "None"
    ELSE IF df.len < 201 \/ df.ema200 = NaN \/ df.close = df.ema200 THEN "None"
    ELSE IF RLt(df.ema200, df.close) THEN "LONG"
    ELSE "SHORT"

\* The pairs of the universe that have a regime.
WithRegime ==
    {i \in DOMAIN scanner.symbols : Regime(scanner.trend_data[i]) # "None"}

\* C30: a pair has no regime with fewer than 201 4-hour candles, an
\* undefined EMA-200 or a last closed close equal to the EMA-200; otherwise
\* its regime is LONG above the EMA-200 and SHORT below.  The pairs of the
\* entry stage are exactly the pairs with a regime, each with its regime.
C30_RegimeStage ==
    RegimesKnown =>
        /\ Len(scanner.filtered_pairs) = Cardinality(WithRegime)
        /\ \A k \in DOMAIN scanner.filtered_pairs :
              /\ scanner.filtered_pairs[k].symbol = scanner.symbols[Nth(WithRegime, k)]
              /\ scanner.filtered_pairs[k].trend =
                     Regime(scanner.trend_data[Nth(WithRegime, k)])
        /\ scanner.pc # "entry" =>
              /\ Len(scanner.entry_data) = Len(scanner.filtered_pairs)
              /\ Len(scanner.entry_results) = Len(scanner.filtered_pairs)

\* The first pair came with 200 candles above its EMA-200 and has no
\* regime; the second, below its EMA-200, is the only pair of the entry
\* stage, as SHORT.
C30_Witness ==
    /\ scanner.pc = "entry"
    /\ Len(scanner.symbols) = 2
    /\ scanner.trend_data[1] = Candles4h(200, R(110), R(100))
    /\ scanner.trend_data[2] = Candles4h(201, R(90), R(100))
    /\ scanner.filtered_pairs =
          <<[symbol |-> scanner.symbols[2], trend |-> "SHORT"]>>

-----------------------------------------------------------------------------
(* C31: the forming candle.                                                *)

\* Both runs went through the stages of the scan.
SeriesScanned == scanner.pc \in {"scanned", "checked"}

\* What a run of the scan hands on: the regime and the signals with their
\* scores.
Outcome(result) == [trend |-> result.trend, signals |-> result.signals]

\* C31: two runs whose series differ only in the last, possibly forming,
\* candle produce identical regimes, signals, scores and confirmation
\* requests.
C31_LastCandleNeverRead ==
    /\ SeriesScanned => Outcome(scanner.results[1]) = Outcome(scanner.results[2])
    /\ scanner.pc = "checked" => scanner.requests[1] = scanner.requests[2]

\* The part of a signal read at the closed candles: everything but the
\* composite and the two components computed over the last twenty values
\* of a column.
ClosedPart(sig) ==
    [symbol            |-> sig.symbol,
     signal            |-> sig.signal,
     price             |-> sig.price,
     atr               |-> sig.atr,
     btc_relative      |-> sig.btc_relative,
     mc_rank           |-> sig.mc_rank,
     macd_acceleration |-> sig.score_data.components.macd_acceleration,
     ema_spread        |-> sig.score_data.components.ema_spread,
     atr_move          |-> sig.score_data.components.atr_move,
     btc_component     |-> sig.score_data.components.btc_relative]

\* The regime, the benchmark change, the entry decision, the levels, the
\* relative strength, the components read at the closed candles and the
\* requests of the monitor are the same in both runs.
ClosedCandleDecisions ==
    /\ SeriesScanned =>
          /\ scanner.results[1].trend = scanner.results[2].trend
          /\ scanner.results[1].btc_pct = scanner.results[2].btc_pct
          /\ scanner.results[1].entry.ok = scanner.results[2].entry.ok
          /\ Len(scanner.results[1].signals) = Len(scanner.results[2].signals)
          /\ \A i \in DOMAIN scanner.results[1].signals :
                ClosedPart(scanner.results[1].signals[i])
                    = ClosedPart(scanner.results[2].signals[i])
    /\ scanner.pc = "checked" => scanner.requests[1] = scanner.requests[2]

\* Two runs gave a signal each and the monitor sent a request in both.
SeriesCompared ==
    /\ scanner.pc = "checked"
    /\ scanner.runs[1] # scanner.runs[2]
    /\ scanner.results[1].signals # <<>>
    /\ \E i \in DOMAIN scanner.requests[1] : scanner.requests[1][i] # "none"

\* The volume of the forming candle alone changed the score of the signal.
ScoreMovedByFormingVolume ==
    /\ SeriesScanned
    /\ scanner.results[1].signals # <<>>
    /\ \A k \in DOMAIN scanner.runs[1].h1 :
          k # Len(scanner.runs[1].h1) =>
              scanner.runs[1].h1[k] = scanner.runs[2].h1[k]
    /\ [scanner.runs[1].h1[Len(scanner.runs[1].h1)] EXCEPT !.volume = R(0)]
           = [scanner.runs[2].h1[Len(scanner.runs[2].h1)] EXCEPT !.volume = R(0)]
    /\ scanner.results[1].signals[1].score # scanner.results[2].signals[1].score

-----------------------------------------------------------------------------
(* C32: the paths of the entry stage.                                      *)

EntryDone == scanner.pc = "entry_done"

\* The last closed candle of the series of the entry.
EntryCurr == Len(scanner.rows) - 1

HistAt(i) == scanner.rows[i].macd_hist

\* The direction of the candidate: the sign of the current histogram.
CandidateDirection ==
    IF FLt(R(0), HistAt(EntryCurr)) THEN "LONG"
    ELSE IF FLt(HistAt(EntryCurr), R(0)) THEN "SHORT"
    ELSE "None"

HistAgrees(i) ==
    IF CandidateDirection = "LONG" THEN FLt(R(0), HistAt(i))
    ELSE FLt(HistAt(i), R(0))

\* The closed candles, walking back from i, whose histogram has the sign of
\* the candidate, up to the first flip.
RECURSIVE PersistenceFrom(_)
PersistenceFrom(i) ==
    IF i < 1 \/ ~HistAgrees(i) THEN 0 ELSE 1 + PersistenceFrom(i - 1)

Persistence == PersistenceFrom(EntryCurr)

CounterTrend ==
    /\ CandidateDirection # "None"
    /\ CandidateDirection # scanner.trend_direction

\* The change of the histogram at candle i, in the candidate's favour.
FavourableDelta(i) ==
    IF CandidateDirection = "LONG" THEN FSub(HistAt(i), HistAt(i - 1))
    ELSE FSub(HistAt(i - 1), HistAt(i))

\* At least pct percent of the values of f over the candles of window are
\* below x.
RankedAbove(x, f(_), window, pct) ==
    100 * Cardinality({i \in window : FLt(f(i), x)}) >= pct * Cardinality(window)

DeltaWindow == (EntryCurr - 49)..EntryCurr

MeanOfLastDeltas ==
    FDiv(FAdd(FAdd(FavourableDelta(EntryCurr), FavourableDelta(EntryCurr - 1)),
              FavourableDelta(EntryCurr - 2)), R(3))

\* One of the last three deltas is in the top decile of the trailing
\* deltas and their mean in the top 30%.
DeltasStrong ==
    /\ \E i \in (EntryCurr - 2)..EntryCurr :
          RankedAbove(FavourableDelta(i), FavourableDelta, DeltaWindow, 90)
    /\ RankedAbove(MeanOfLastDeltas, FavourableDelta, DeltaWindow, 70)

\* The close is on the candidate's side of the EMA-50.
PriceOnSide ==
    IF CandidateDirection = "LONG"
    THEN FLt(scanner.rows[EntryCurr].ema50, scanner.rows[EntryCurr].close)
    ELSE FLt(scanner.rows[EntryCurr].close, scanner.rows[EntryCurr].ema50)

\* The close is at or beyond the extreme of the twelve candles before the
\* prior one.
Breakout ==
    \A i \in (EntryCurr - 13)..(EntryCurr - 2) :
        IF CandidateDirection = "LONG"
        THEN ~FLt(scanner.rows[EntryCurr].close, scanner.rows[i].high)
        ELSE ~FLt(scanner.rows[i].low, scanner.rows[EntryCurr].close)

VolumeAt(i) == scanner.rows[i].volume

VolumeHigh ==
    RankedAbove(VolumeAt(EntryCurr), VolumeAt, (EntryCurr - 20)..EntryCurr, 70)

\* The four conditions of the counter-trend path besides persistence.
OtherCounterTrendConditions ==
    DeltasStrong /\ PriceOnSide /\ Breakout /\ VolumeHigh

\* C32: a candidate against the regime is rejected when its persistence is
\* one bar, whatever else holds, and accepted in its own direction when its
\* persistence is three bars and the four other counter-trend conditions
\* hold.
C32_CounterTrendPaths ==
    EntryDone /\ CounterTrend =>
        /\ Persistence = 1 => ~scanner.result.ok
        /\ Persistence >= 3 /\ OtherCounterTrendConditions =>
              /\ scanner.result.ok
              /\ scanner.result.signal = CandidateDirection

\* A candidate against the regime with one bar of persistence is rejected.
CounterTrendOneBarRejected ==
    EntryDone /\ CounterTrend /\ Persistence = 1 => ~scanner.result.ok

\* No candidate against the regime is accepted.
CounterTrendNeverAccepted ==
    EntryDone /\ CounterTrend => ~scanner.result.ok

\* An accepted entry has the direction of the regime and a histogram that
\* changed sign on the last closed candle.
AcceptedOnCross ==
    EntryDone /\ scanner.result.ok =>
        /\ scanner.result.signal = scanner.trend_direction
        /\ CandidateDirection = scanner.trend_direction
        /\ Persistence = 1

\* A SHORT candidate under a LONG regime with three bars of persistence and
\* the four other conditions was evaluated.
CounterTrendQualified ==
    /\ EntryDone
    /\ scanner.trend_direction = "LONG"
    /\ CandidateDirection = "SHORT"
    /\ Persistence = 3
    /\ OtherCounterTrendConditions

\* A candidate against the regime with one bar of persistence and the four
\* other conditions was evaluated.
CounterTrendOneBar ==
    /\ EntryDone
    /\ CounterTrend
    /\ Persistence = 1
    /\ OtherCounterTrendConditions

\* An entry was accepted.
EntryAccepted == EntryDone /\ scanner.result.ok

-----------------------------------------------------------------------------
(* C33: updates saved by handlers while a cycle runs.                      *)

CapitalFields == {"portfolio_balance", "available_cash", "tied_capital"}

\* What a handler saved since the cycle loaded `loaded` is in the state the
\* cycle saves: a capital figure, the mode or the dedup keys that differ
\* from the loaded ones keep their value, and changed positions stay as
\* they are but for a denial counter the cycle reset.
UpdatesKept(loaded) ==
    /\ \A f \in CapitalFields \cup {"bot_status", "sent_signals"} :
          state[f] # loaded[f] => state'[f] = state[f]
    /\ state.active_positions # loaded.active_positions =>
          /\ Len(state'.active_positions) = Len(state.active_positions)
          /\ \A i \in DOMAIN state.active_positions :
                /\ [state'.active_positions[i] EXCEPT !.denial_count = 0]
                       = [state.active_positions[i] EXCEPT !.denial_count = 0]
                /\ state'.active_positions[i].denial_count
                       \in {0, state.active_positions[i].denial_count}

\* C33: a state change saved by a confirmation handler while a position
\* monitor cycle is between its load_state and its save_state is still
\* present in the persisted state after the cycle saves.
C33_NoLostUpdate == [][CycleEnds => UpdatesKept(monitor.loaded)]_vars

\* The hourly scan saves.
ScanJobEnds == scanner.pc = "scan" /\ scanner'.pc = "idle"

\* The same for the hourly signal scan: what the Opened and Ignore answers
\* saved while scan_market was awaited is present after the scan saves,
\* and a key an answer deleted is not put back.
ScanKeepsUpdates ==
    [][ScanJobEnds =>
          /\ \A f \in CapitalFields \cup {"bot_status", "active_positions"} :
                state[f] # scanner.loaded[f] => state'[f] = state[f]
          /\ \A k \in scanner.loaded.sent_signals \ state.sent_signals :
                k \notin state'.sent_signals]_vars

\* A cycle during which no handler saved changes nothing but denial
\* counters.
QuietCycleKeeps ==
    [][CycleEnds /\ state = monitor.loaded => SameButDenials(state, state')]_vars

\* The last record of the trade log closes a position of a symbol that is
\* open in the state the monitor has just saved, with the cash as it was
\* before the close was credited.
ClosedReappeared ==
    /\ monitor.pc = "saved"
    /\ trade_log # <<>>
    /\ trade_log[Len(trade_log)].action = "CLOSE"
    /\ state = MonitorSavedState(monitor.loaded, monitor.tickers, monitor.candles_5m)
    /\ \E i \in DOMAIN state.active_positions :
          state.active_positions[i].symbol = trade_log[Len(trade_log)].symbol
    /\ RLt(state.available_cash, state.portfolio_balance)
    /\ state.tied_capital # R(0)

-----------------------------------------------------------------------------
(* C34: the count of open positions.                                       *)

\* C34: the persisted state never holds more than MAX_POSITIONS open
\* positions, whatever opens are confirmed or replayed and whatever cycles
\* run while the ticker of an open is awaited.
C34_PositionsBounded == Len(state.active_positions) <= MAX_POSITIONS

\* The book is full after an open, a replayed open token has just been
\* rejected with cash left for a position, and both jobs are between their
\* load and their save.
C34_Witness ==
    /\ Len(state.active_positions) = MAX_POSITIONS
    /\ reply.kind = "max_positions"
    /\ trade_log[Len(trade_log)].action = "OPEN"
    /\ ~RLt(state.available_cash, AllocatedCapital(state.portfolio_balance))
    /\ monitor.pc = "fetch"
    /\ scanner.pc = "scan"

\* The ticker of an open is awaited while both jobs hold a loaded state.
OpenPendingBesideCycles ==
    /\ handler.pc = "fetch"
    /\ monitor.pc = "fetch"
    /\ scanner.pc = "scan"

\* A cycle saved a state with fewer positions than the persisted one had:
\* the stale save can drop positions but never adds one beyond the limit.
NoCopyOverfull ==
    /\ handler.pc = "fetch" => Len(handler.state.active_positions) < MAX_POSITIONS
    /\ monitor.pc = "fetch" => Len(monitor.loaded.active_positions) <= MAX_POSITIONS
    /\ scanner.pc = "scan" => Len(scanner.loaded.active_positions) <= MAX_POSITIONS

-----------------------------------------------------------------------------
(* C35: the afk mode.                                                      *)

\* C35: while the persisted mode is "afk" no signal alert is sent and
\* sent_signals is not modified.
C35_AfkSilent ==
    [][state.bot_status = "afk" =>
          /\ alerts'.out = alerts.out
          /\ state'.sent_signals = state.sent_signals]_vars

\* The hourly job never starts a scan while the persisted mode is "afk".
AfkJobSkips ==
    [][state.bot_status = "afk" /\ scanner.pc = "idle" => scanner'.pc = "idle"]_vars

\* /afk and /ready change nothing but the mode, and /ready sets "ready".
ModeCommandsFrame ==
    [][/\ (handler.pc = "afk" /\ handler'.pc = "idle" /\ state' # state) =>
              state' = [handler.state EXCEPT !.bot_status = "afk"]
       /\ (reply'.kind = "ready" /\ reply' # reply) =>
              state' = [state EXCEPT !.bot_status = "ready"]]_vars

\* /scan has just sent an alert and saved its key while the mode was "afk".
ScanAlertedInAfk ==
    /\ state.bot_status = "afk"
    /\ reply.kind = "scanned"
    /\ state.sent_signals # {}
    /\ \E a \in AlertKinds : a[2] = "scan" /\ alerts.out[a] > 0

\* The monitor has just asked for a stop-loss confirmation while the mode
\* is "afk" in the state it loaded and in the persisted state.
MonitorChecksInAfk ==
    /\ monitor.pc = "saved"
    /\ monitor.loaded.bot_status = "afk"
    /\ state.bot_status = "afk"
    /\ \E i \in DOMAIN monitor.alerts : monitor.alerts[i] = "sl_breach"

\* After /ready the hourly job scans again.
ReadyScans ==
    /\ reply.kind = "ready"
    /\ state.bot_status = "ready"
    /\ scanner.pc = "scan"
    /\ scanner.loaded.bot_status = "ready"

\* The same for the hourly job alone: no step but the end of a /scan sends
\* an alert or touches sent_signals while the mode is "afk".
AfkSilentButScan ==
    [][state.bot_status = "afk" /\ handler.pc # "scan" =>
          /\ alerts'.out = alerts.out
          /\ state'.sent_signals = state.sent_signals]_vars

-----------------------------------------------------------------------------
(* C36: one position per symbol.                                           *)

CloseRemovesOne ==
    [][\A symbol \in Symbols :
          HandleSlClosed(symbol) /\ symbol \in PositionSymbols(state.active_positions)
              => Len(state'.active_positions) = Len(state.active_positions) - 1]_vars

\* The positions of seq with another symbol, in order.
OtherSymbols(seq, symbol) == SelectSeq(seq, LAMBDA p : p.symbol # symbol)

\* A confirmed slclosed for symbol leaves exactly the positions of the
\* other symbols, each as it was.
CloseLeavesOthers ==
    [][\A symbol \in Symbols :
          HandleSlClosed(symbol) =>
              state'.active_positions = OtherSymbols(state.active_positions, symbol)]_vars

\* Two positions of one symbol and side are open, each opened from an alert
\* of the hourly job.
SymbolOpenedTwice ==
    /\ Len(state.active_positions) = 2
    /\ state.active_positions[1].symbol = state.active_positions[2].symbol
    /\ state.active_positions[1].side = state.active_positions[2].side
    /\ reply.kind = "opened"

\* One slclosed has just closed two positions.
TwoClosedAtOnce ==
    /\ reply.kind = "closed"
    /\ state.active_positions = <<>>
    /\ Len(trade_log) = 4
    /\ trade_log[3].action = "CLOSE"
    /\ trade_log[4].action = "CLOSE"

-----------------------------------------------------------------------------
(* C37: no alert for an open position.                                     *)

\* An alert of kind a is sent in this step.
AlertSent(a) == alerts'.out[a] > alerts.out[a]

ScanSkipsLoadedPositions ==
    [][\A a \in AlertKinds :
          AlertSent(a) /\ a[2] = "scan" =>
              a[1] \notin OpenPositionKeys(handler.state.active_positions)]_vars

\* /scan sends no alert for a position that is open in the persisted
\* state.
ScanSkipsOpenPositions ==
    [][\A a \in AlertKinds :
          AlertSent(a) /\ a[2] = "scan" =>
              a[1] \notin OpenPositionKeys(state.active_positions)]_vars

\* The hourly job has alerted the key of an open position whose open had
\* deleted the key from sent_signals.
AlertedOpenPosition ==
    /\ scanner.pc = "idle"
    /\ \E k \in OpenPositionKeys(state.active_positions) :
          /\ k \in state.sent_signals
          /\ alerts.out[<<k, "scanner">>] > 0
    /\ reply.kind = "opened"

\* /scan has just discarded the signal of an open position.
ScanDiscardedOpenPosition ==
    /\ reply.kind = "scanned"
    /\ \E k \in reply.signals :
          /\ k \in OpenPositionKeys(state.active_positions)
          /\ k \notin state.sent_signals
          /\ alerts.out[<<k, "scan">>] = 0

-----------------------------------------------------------------------------
(* C38: the lifecycle of a position.                                       *)

\* The levels of a position at its open: the stop and TP1 on either side of
\* a positive entry price.
OpenedInOrder(p) ==
    RLt(R(0), p.entry_price) =>
        IF p.side = "LONG"
        THEN RLt(p.current_sl, p.entry_price) /\ RLt(p.entry_price, p.tp1_price)
        ELSE RLt(p.tp1_price, p.entry_price) /\ RLt(p.entry_price, p.current_sl)

\* q is a later record of position p.
SamePosition(p, q) ==
    /\ q.symbol = p.symbol
    /\ q.side = p.side
    /\ q.entry_price = p.entry_price

\* From p to q the stop stays, or moves to break-even with the partial
\* close, in the position's favour; tp1_hit stays true once true and the
\* allocated capital does not grow.
MovedOn(p, q) ==
    /\ q.current_sl # p.current_sl =>
          /\ ~p.tp1_hit /\ q.tp1_hit
          /\ q.current_sl = RMul(p.entry_price,
                                 IF p.side = "LONG" THEN <<1002, 1000>> ELSE <<998, 1000>>)
          /\ IF p.side = "LONG" THEN RLt(p.current_sl, q.current_sl)
             ELSE RLt(q.current_sl, p.current_sl)
    /\ p.tp1_hit => q.tp1_hit
    /\ RLe(q.allocated_capital, p.allocated_capital)

LifecycleStep ==
    /\ Len(state'.active_positions) = Len(state.active_positions) + 1 =>
          OpenedInOrder(state'.active_positions[Len(state'.active_positions)])
    /\ \A i \in DOMAIN state.active_positions \cap DOMAIN state'.active_positions :
          SamePosition(state.active_positions[i], state'.active_positions[i]) =>
              MovedOn(state.active_positions[i], state'.active_positions[i])

\* C38: a position opens with its stop and TP1 on either side of the entry;
\* afterwards its stop moves only with the partial close, to break-even and
\* in its favour, tp1_hit never returns to false and allocated_capital
\* never increases.
C38_LifecycleMonotone == [][LifecycleStep]_vars

\* The same for every step but the save that ends a monitor cycle: each
\* handler keeps the lifecycle.
HandlersMonotone == [][~CycleEnds => LifecycleStep]_vars

\* The monitor has just saved a position back to its state before the
\* partial close: the trade log ends with the partial close, the persisted
\* position has tp1_hit false, its first stop and its full capital.
PartialCloseUndone ==
    /\ monitor.pc = "saved"
    /\ trade_log # <<>>
    /\ trade_log[Len(trade_log)].action = "PARTIAL_CLOSE"
    /\ \E i \in DOMAIN state.active_positions :
          /\ state.active_positions[i].symbol = trade_log[Len(trade_log)].symbol
          /\ ~state.active_positions[i].tp1_hit
          /\ state.active_positions[i].current_sl
                 = StopLoss(state.active_positions[i].side,
                            state.active_positions[i].entry_price,
                            state.active_positions[i].initial_risk)

\* A SHORT position was half-closed: its stop came down to break-even.
ShortAtBreakEven ==
    \E i \in DOMAIN state.active_positions :
        /\ state.active_positions[i].side = "SHORT"
        /\ state.active_positions[i].tp1_hit
        /\ state.active_positions[i].current_sl
               = RMul(state.active_positions[i].entry_price, <<998, 1000>>)
        /\ RLt(state.active_positions[i].tp1_price, state.active_positions[i].entry_price)

====
